---- MODULE Spec2Model ----
(***************************************************************************)
(* A model of cacophony's audio connection (audio/src/conn.rs) and of the  *)
(* per-frame input handler (io/src/lib.rs).                                *)
(*                                                                         *)
(* Conn owns the synthesizer, the live MIDI event queue, the play state    *)
(* and the export state, all behind mutexes shared with the audio player   *)
(* callback and with the export worker threads that start_export spawns.   *)
(***************************************************************************)
EXTENDS Integers, Sequences, FiniteSets, TLC

(***************************************************************************)
(* Bounds of the model.                                                    *)
(***************************************************************************)
\* Tracks of a project.
MaxTracks == 2
\* Note starts and ends lie in 0..MaxPulse.
MaxPulse == 1
\* Export worker threads that can exist at the same time.
MaxWorkers == 2
\* The most samples the decayer appends before it stops.
MaxDecay == 2
\* The most events the live queue holds: a play request that would exceed it
\* is not made.
MaxQueue == 4
\* Enqueue calls before the sort, and the times of their events (0..MaxTime),
\* in the specification of the queue.
MaxEnqueue == 3
MaxTime == 2
\* Conn.state.gain lies in 0..MaxGain (MAX_VOLUME); the banks of a SoundFont
\* are numbered in 0..MaxBank and the presets of a bank in 0..MaxPreset.
MaxGain == 1
MaxPreset == 2
MaxBank == 3
\* The most programs in the SynthState of a save file.
MaxSavedPrograms == 1
\* The tracks of the projects that are only exported have up to MaxNotes
\* notes, with starts and ends in 0..MaxEnd.
MaxNotes == 2
MaxEnd == 2
\* The most commands sent before the exports whose files are named.
MaxSetup == 2
\* The most commands in one call of do_commands.
MaxCommands == 1
\* The most dequeue calls in the specification of the queue.
MaxDequeue == 2
\* The most snapshots on the undo and redo stacks together.
MaxHistory == 3
\* The most inputs in the specification of undo and redo.
MaxInputs == 5

(***************************************************************************)
(* Framerates, in samples per pulse: Conn.framerate is the audio device's  *)
(* rate, Exporter.framerate the user's export rate.                        *)
(***************************************************************************)
PlayerFramerate == 1
ExportFramerate == 2

VARIABLES
    music,            \* State.music.midi_tracks, as passed to every Conn call
    exporter,         \* Conn.exporter: the live export settings
    play_state,       \* Conn.play_state (shared with the player)
    export_state,     \* Conn.export_state (shared with the workers)
    synth,            \* the shared synthesizer: its sample rate, its mutex,
                      \* its fonts, the preset of each channel and its gain
    midi_event_queue, \* Conn.midi_event_queue (shared with the player)
    workers,          \* the threads spawned by start_export
    fg,               \* the last foreground call of Conn, and the MIDI events
                      \* it sent to the synthesizer
    soundfonts,       \* Conn.soundfonts: the SoundFontBanks of the loaded paths
    conn_state,       \* Conn.state: the program of each channel, and the gain
    export_queue,     \* IO.export_queue
    conn_export_state,\* conn.export_state as IO reads and writes it
    panel,            \* the panel that IO enabled last
    frame,            \* the last call of IO::update: its input, the messages
                      \* it sent to the Conn, the batch it took from the
                      \* queue, and whether it returned true
    mq,               \* a MidiEventQueue of its own, with the calls made on it
    mid_file,         \* the messages of the file that Exporter::mid wrote
    history,          \* IO.undo and IO.redo, with the State they act on
    starting,         \* Conn::start_music statement by statement: where the
                      \* call stands, and the guard of the live queue
    locks,            \* the mutexes that each thread holds, and the lock
                      \* and unlock operations that its call has yet to do
    midi_input,       \* Input: the notes of the frame, the note-ons that
                      \* wait for a note-off, and the last update
    deltas            \* the EditModeDeltas of the piano roll, and the last
                      \* delta that it returned

\* The variables of the connection, of the input handler and of the queue.
conn_vars == <<music, exporter, play_state, export_state, synth,
               midi_event_queue, workers, fg, soundfonts, conn_state>>
io_vars == <<export_queue, conn_export_state, panel, frame>>

\* The variables of what is modelled on its own.
step_vars == <<starting, locks, midi_input, deltas>>
own_vars == <<mq, mid_file, history, step_vars>>
vars == <<conn_vars, io_vars, own_vars>>

\* An Option: None, or Some(x).
None == <<>>
Some(x) == <<x>>

(***************************************************************************)
(* Values.                                                                 *)
(***************************************************************************)
ExportTypes == {"Wav", "MP3", "Ogg", "Flac", "Mid"}

\* MultiFileSuffix: how the files of a multi-file export are named.
MultiFileSuffixes == {"Channel", "Preset", "ChannelAndPreset"}

\* The export settings (Exporter).
Exporters ==
    [export_type : ExportTypes, multi_file : BOOLEAN,
     multi_file_suffix : MultiFileSuffixes, framerate : {ExportFramerate}]

NotPlaying == [tag |-> "NotPlaying", start |-> 0]
Playing(start) == [tag |-> "Playing", start |-> start]
Decaying == [tag |-> "Decaying", start |-> 0]

NotExporting == [tag |-> "NotExporting", total_samples |-> 0, exported_samples |-> 0]
WritingWav(total, exported) ==
    [tag |-> "WritingWav", total_samples |-> total, exported_samples |-> exported]
AppendingDecay == [tag |-> "AppendingDecay", total_samples |-> 0, exported_samples |-> 0]
WritingToDisk == [tag |-> "WritingToDisk", total_samples |-> 0, exported_samples |-> 0]
Done == [tag |-> "Done", total_samples |-> 0, exported_samples |-> 0]

Workers == 1..MaxWorkers

\* MAX_VOLUME of common: the highest gain of a track and the highest velocity
\* of a note.
MAX_VOLUME == 127

\* A note of a track: its key, its velocity, and its start and end in pulses.
Notes ==
    {n \in [note : {60}, velocity : {MAX_VOLUME}, start : 0..MaxPulse,
            end : 0..MaxPulse] : n.start < n.end}

\* The notes of a track: none, or one note.
NoteLists == {<<>>} \cup {<<n>> : n \in Notes}

\* Longer tracks, for the exports: up to MaxNotes notes that end by MaxEnd.
ExportNotes ==
    {n \in [note : {60}, velocity : {MAX_VOLUME}, start : 0..MaxEnd,
            end : 0..MaxEnd] : n.start < n.end}

ExportNoteLists == UNION {[1..k -> ExportNotes] : k \in 0..MaxNotes}

\* A MidiTrack on a channel.
MidiTracks(channel) ==
    [channel : {channel}, gain : {MAX_VOLUME}, notes : NoteLists,
     mute : BOOLEAN, solo : BOOLEAN]

\* The projects (Music.midi_tracks): up to MaxTracks tracks, track i on
\* channel i - 1.
RECURSIVE MusicsOf(_)
MusicsOf(k) ==
    IF k = 0 THEN {<<>>}
    ELSE {Append(m, t) : m \in MusicsOf(k - 1), t \in MidiTracks(k - 1)}

Musics == UNION {MusicsOf(k) : k \in 0..MaxTracks}

\* The projects with the longer tracks.
RECURSIVE ExportMusicsOf(_)
ExportMusicsOf(k) ==
    IF k = 0 THEN {<<>>}
    ELSE {Append(m, t) :
              m \in ExportMusicsOf(k - 1),
              t \in [channel : {k - 1}, gain : {MAX_VOLUME},
                     notes : ExportNoteLists, mute : BOOLEAN,
                     solo : BOOLEAN]}

ExportMusics == UNION {ExportMusicsOf(k) : k \in 0..MaxTracks}

(***************************************************************************)
(* The arithmetic of the velocities: "x as f32 / y as f32", "v as f32 * g" *)
(* and "as u8" (and the same with f64), for integers x <= y and v of a     *)
(* byte.  A float is [sig, exp]: its significand is the number             *)
(* sig[1] * Limb^2 + sig[2] * Limb + sig[3], its value is the significand  *)
(* over 2^exp.  An operation rounds its exact result to the p bits of the  *)
(* format, to nearest and to even on a tie.                                *)
(***************************************************************************)
F32 == 24
F64 == 53
LimbBits == 18
Limb == 2^LimbBits

\* The number of bits of x.
bit_length(x) ==
    IF x = 0 THEN 0
    ELSE CHOOSE n \in 1..30 : 2^(n - 1) <= x /\ x \div 2 < 2^(n - 1)

sig_length(s) ==
    IF s[1] > 0 THEN 2 * LimbBits + bit_length(s[1])
    ELSE IF s[2] > 0 THEN LimbBits + bit_length(s[2])
    ELSE bit_length(s[3])

sig_increment(s) ==
    LET l == s[3] + 1
        m == s[2] + l \div Limb
    IN  <<s[1] + m \div Limb, m % Limb, l % Limb>>

\* The significand times v, for v of a byte.
sig_times(s, v) ==
    LET l == v * s[3]
        m == v * s[2] + l \div Limb
    IN  <<v * s[1] + m \div Limb, m % Limb, l % Limb>>

\* <<the quotient of the significand by d, the remainder>>, for d of a byte.
sig_div(s, d) ==
    LET m == (s[1] % d) * Limb + s[2]
        l == (m % d) * Limb + s[3]
    IN  <<<<s[1] \div d, m \div d, l \div d>>, l % d>>

\* The significand without its last n bits, for n <= LimbBits.
sig_shift(s, n) ==
    <<s[1] \div 2^n,
      (s[1] % 2^n) * 2^(LimbBits - n) + s[2] \div 2^n,
      (s[2] % 2^n) * 2^(LimbBits - n) + s[3] \div 2^n>>

Zero == [sig |-> <<0, 0, 0>>, exp |-> 0]

\* The value of an expression that is worked out once: the element of the
\* set of one element.
the(S) == CHOOSE x \in S : TRUE

\* y without its last n bits, rounded to nearest and to even on a tie; one
\* more bit goes if the rounding has carried into a bit more than p.
round_bits(y, n, p) ==
    LET dropped == y.sig[3] % 2^n
        up == \/ 2 * dropped > 2^n
              \/ 2 * dropped = 2^n /\ (y.sig[3] \div 2^n) % 2 = 1
    IN  the({IF sig_length(r) > p
             THEN [sig |-> sig_shift(r, 1), exp |-> y.exp - n - 1]
             ELSE [sig |-> r, exp |-> y.exp - n] :
                 r \in {IF up THEN sig_increment(sig_shift(y.sig, n))
                        ELSE sig_shift(y.sig, n)}})

\* x rounded to p bits.
round_to(x, p) ==
    the({the({IF n <= 0 THEN y ELSE round_bits(y, n, p) :
                  n \in {sig_length(y.sig) - p}}) :
             y \in {x}})

\* g as float / d as float, for 0 <= g <= d and d of a byte: the quotient is
\* worked out to p + 1 bits, with one more bit that says whether the
\* division left a remainder, and rounded.
quotient(g, d, k, p) ==
    the({round_to([sig |-> <<2 * q[1][1] + (2 * q[1][2]) \div Limb,
                             ((2 * q[1][2]) % Limb) + (2 * q[1][3]) \div Limb,
                             ((2 * q[1][3]) % Limb)
                                 + (IF q[2] = 0 THEN 0 ELSE 1)>>,
                   exp |-> p + k + 1], p) :
             q \in {sig_div(IF p >= 2 * LimbBits
                            THEN <<g * 2^(k + p - 2 * LimbBits), 0, 0>>
                            ELSE <<0, g * 2^(k + p - LimbBits), 0>>, d)}})

f_div(g, d, p) ==
    IF g = 0 THEN Zero
    ELSE the({quotient(g, d, k, p) :
                  k \in {k \in 0..8 : d <= g * 2^k /\ g * 2^k < 2 * d}})

\* v as float * x, for v of a byte.
f_mul(v, x, p) ==
    the({IF v = 0 \/ y = Zero THEN Zero
         ELSE round_to([sig |-> sig_times(y.sig, v), exp |-> y.exp], p) :
             y \in {x}})

\* The integer part of y, which has n bits: at most 255.
integer_part(y, n) ==
    IF n <= 0 THEN 0
    ELSE IF n > 8 THEN 255
    ELSE IF y.exp >= 2 * LimbBits
    THEN y.sig[1] \div 2^(y.exp - 2 * LimbBits)
    ELSE IF y.exp >= LimbBits
    THEN y.sig[1] * 2^(2 * LimbBits - y.exp)
             + y.sig[2] \div 2^(y.exp - LimbBits)
    ELSE y.sig[1] * 2^(2 * LimbBits - y.exp)
             + y.sig[2] * 2^(LimbBits - y.exp)
             + y.sig[3] \div 2^y.exp

\* x as u8.
as_u8(x) ==
    the({the({integer_part(y, n) : n \in {sig_length(y.sig) - y.exp}}) :
             y \in {x}})

MidiTrack_get_gain_f(track) == f_div(track.gain, MAX_VOLUME, F32)

(***************************************************************************)
(* Time::ppq_to_samples: pulses to samples at a framerate.                 *)
(***************************************************************************)
ppq_to_samples(ppq, framerate) == ppq * framerate

(***************************************************************************)
(* MidiEventQueue: enqueue appends, sort orders by time keeping the        *)
(* insertion order of equal times, dequeue(t) removes and returns the      *)
(* leading events with time <= t.                                          *)
(***************************************************************************)
enqueue(q, time, event) == Append(q, [time |-> time, event |-> event])

\* An insertion that puts an event before the events of its time.
RECURSIVE InsertSorted_before_equal(_, _)
InsertSorted_before_equal(s, e) ==
    IF s = <<>> THEN <<e>>
    ELSE IF e.time <= Head(s).time THEN <<e>> \o s
    ELSE <<Head(s)>> \o InsertSorted_before_equal(Tail(s), e)

RECURSIVE InsertSorted(_, _)
InsertSorted(s, e) ==
    IF s = <<>> THEN <<e>>
    ELSE IF e.time < Head(s).time THEN <<e>> \o s
    ELSE <<Head(s)>> \o InsertSorted(Tail(s), e)

RECURSIVE sort(_)
sort(q) ==
    IF q = <<>> THEN <<>>
    ELSE InsertSorted(sort(SubSeq(q, 1, Len(q) - 1)), q[Len(q)])

RECURSIVE DueCount(_, _)
DueCount(q, t) ==
    IF q = <<>> \/ Head(q).time > t THEN 0 ELSE 1 + DueCount(Tail(q), t)

\* dequeue(t): <<the events returned, the queue that is left>>
dequeue(q, t) ==
    LET n == DueCount(q, t)
    IN  <<[i \in 1..n |-> q[i].event], SubSeq(q, n + 1, Len(q))>>

NoteOn(channel, key, vel) ==
    [kind |-> "NoteOn", channel |-> channel, key |-> key, vel |-> vel]
NoteOff(channel, key) == [kind |-> "NoteOff", channel |-> channel, key |-> key]
AllNotesOff(channel) == [kind |-> "AllNotesOff", channel |-> channel, key |-> 0]
AllSoundOff(channel) == [kind |-> "AllSoundOff", channel |-> channel, key |-> 0]

(***************************************************************************)
(* Music::get_playable_tracks: the soloed tracks if there are any, else    *)
(* every track that is not muted.                                          *)
(***************************************************************************)
Music_get_playable_tracks(m) ==
    IF \E i \in 1..Len(m) : m[i].solo
    THEN SelectSeq(m, LAMBDA t : t.solo)
    ELSE SelectSeq(m, LAMBDA t : ~t.mute)

(***************************************************************************)
(* get_playable_tracks of io: the first soloed track if there is one, else *)
(* every track that is not muted.                                          *)
(***************************************************************************)
get_playable_tracks(m) ==
    IF \E i \in 1..Len(m) : m[i].solo
    THEN <<m[CHOOSE i \in 1..Len(m) :
               m[i].solo /\ \A j \in 1..(i - 1) : ~m[j].solo]>>
    ELSE SelectSeq(m, LAMBDA t : ~t.mute)

(***************************************************************************)
(* MidiTrack::get_playback_notes: the notes that start at or after the     *)
(* playback time.                                                          *)
(***************************************************************************)
MidiTrack_get_playback_notes(track, playback) ==
    LET notes == SelectSeq(track.notes, LAMBDA n : n.start >= playback)
        gain == MidiTrack_get_gain_f(track)
    IN  [i \in 1..Len(notes) |->
             [notes[i] EXCEPT !.velocity = as_u8(f_mul(@, gain, F32))]]

(***************************************************************************)
(* The synthesizer mutex: 0 when free, else the worker that holds it.  A   *)
(* foreground call and the player take and release it within one step.     *)
(***************************************************************************)
SynthFree == synth.lock = 0

\* A foreground call of Conn and the MIDI events it sent.
Call(name, sent) == [call |-> name, sent |-> sent]

(***************************************************************************)
(* Conn::note_ons: the note-ons of this frame go to the selected track's   *)
(* channel, under the synthesizer lock, and the play state is set to       *)
(* Decaying so that the player renders them.                               *)
(***************************************************************************)
\* A note_ons that starts the playback instead of letting the notes decay.
note_ons_plays(selected, keys) ==
    /\ IF selected # 0 /\ keys # <<>>
       THEN /\ SynthFree
            /\ fg' = Call("note_ons", [i \in 1..Len(keys) |->
                              NoteOn(music[selected].channel, keys[i],
                                     as_u8(f_mul(MAX_VOLUME,
                                                 f_div(music[selected].gain,
                                                       MAX_VOLUME, F32),
                                                 F32)))])
            /\ play_state' = Playing(0)
       ELSE /\ fg' = Call("note_ons", <<>>)
            /\ UNCHANGED play_state
    /\ UNCHANGED <<io_vars, own_vars, soundfonts, conn_state, music, exporter,
                   export_state, synth, midi_event_queue, workers>>

note_ons(selected, keys) ==
    /\ IF selected # 0 /\ keys # <<>>
       THEN /\ SynthFree
            /\ fg' = Call("note_ons", [i \in 1..Len(keys) |->
                              NoteOn(music[selected].channel, keys[i],
                                     as_u8(f_mul(MAX_VOLUME,
                                                 f_div(music[selected].gain,
                                                       MAX_VOLUME, F32),
                                                 F32)))])
            /\ play_state' = Decaying
       ELSE /\ fg' = Call("note_ons", <<>>)
            /\ UNCHANGED play_state
    /\ UNCHANGED <<io_vars, own_vars, soundfonts, conn_state, music, exporter,
                   export_state, synth, midi_event_queue, workers>>

(***************************************************************************)
(* Conn::note_offs.                                                        *)
(***************************************************************************)
note_offs(selected, keys) ==
    /\ IF selected # 0 /\ keys # <<>>
       THEN /\ SynthFree
            /\ fg' = Call("note_offs", [i \in 1..Len(keys) |->
                              NoteOff(music[selected].channel, keys[i])])
       ELSE fg' = Call("note_offs", <<>>)
    /\ UNCHANGED <<io_vars, own_vars, soundfonts, conn_state, music, exporter,
                   play_state, export_state, synth, midi_event_queue,
                   workers>>

(***************************************************************************)
(* The synthesizer has the channels 0..MaxTracks - 1, and track i is on    *)
(* channel i - 1; a command can also name a channel that the synthesizer   *)
(* does not have.                                                          *)
(***************************************************************************)
Channels == 0..(MaxTracks - 1)
CommandChannels == 0..MaxTracks

\* The SoundFont files on the disk.
Paths == {"a.sf2", "b.sf2"}

\* The SoundFont file of the sessions that export or read save files.
FirstPaths == {"a.sf2"}

\* A path of a save file whose SoundFont is no longer on the disk.
GonePath == "gone.sf2"

(***************************************************************************)
(* SoundFont::preset(bank, preset) of the file at a path: the name of the  *)
(* preset, or None.  a.sf2 has presets in its odd banks, more in the lower *)
(* banks and none numbered 0; another file has one preset, with the bank   *)
(* and the preset number of a preset of a.sf2.                             *)
(***************************************************************************)
SoundFont_preset(path, bank, preset) ==
    IF path = "a.sf2"
    THEN IF bank % 2 = 1 /\ preset >= 1 /\ bank + preset <= MaxBank + 1
         THEN Some(IF preset = 1 THEN "Piano" ELSE "Organ")
         ELSE None
    ELSE IF bank = 1 /\ preset = 1
         THEN Some(IF path = "b.sf2" THEN "Flute" ELSE "Piano")
         ELSE None

\* The elements of a set of numbers in ascending order.
RECURSIVE SortedSeq(_)
SortedSeq(S) ==
    IF S = {} THEN <<>>
    ELSE LET m == CHOOSE x \in S : \A y \in S : x <= y
         IN  <<m>> \o SortedSeq(S \ {m})

\* The orders in which a HashMap with the keys S can iterate.
RECURSIVE KeyOrders(_)
KeyOrders(S) ==
    IF S = {} THEN {<<>>}
    ELSE UNION {{<<x>> \o s : s \in KeyOrders(S \ {x})} : x \in S}

\* Iterator::position: the index, from 0, of x in s.
position(s, x) == (CHOOSE i \in 1..Len(s) : s[i] = x) - 1

(***************************************************************************)
(* SoundFontBanks::new: the banks 0..MaxBank that have a preset, each with *)
(* its presets of 0..MaxPreset in ascending order, in a HashMap; keys is   *)
(* the order in which the HashMap iterates, which is any order and stays   *)
(* the same as the map is never modified.  The id is that of add_font.     *)
(***************************************************************************)
bank_presets(path, bank) ==
    SortedSeq({p \in 0..MaxPreset : SoundFont_preset(path, bank, p) # None})

bank_numbers(path) == {b \in 0..MaxBank : bank_presets(path, b) # <<>>}

SoundFontBanks_new(path, keys) ==
    [id |-> path,
     banks |-> [b \in bank_numbers(path) |-> bank_presets(path, b)],
     keys |-> keys]

\* The iteration order of the HashMap of each file, should it be loaded.
RECURSIVE HashOrdersOf(_)
HashOrdersOf(paths) ==
    IF paths = {} THEN {<<>>}
    ELSE LET p == CHOOSE q \in paths : TRUE
         IN  {[q \in paths |-> IF q = p THEN o ELSE f[q]] :
                  o \in KeyOrders(bank_numbers(p)),
                  f \in HashOrdersOf(paths \ {p})}

HashOrders == HashOrdersOf(Paths)

(***************************************************************************)
(* The synthesizer (oxisynth).  add_font(font, true) adds the font and     *)
(* resets the presets: a channel whose bank and preset numbers are in the  *)
(* new font gets the preset of the new font.  program_select is Ok, with   *)
(* the synthesizer after it, when the channel exists and the font has the  *)
(* preset, else Err (None).                                                *)
(***************************************************************************)
add_font(sy, id) ==
    [sy EXCEPT
        !.fonts = @ \cup {id},
        !.programs = [c \in Channels |->
            IF sy.programs[c] # None
               /\ SoundFont_preset(id, sy.programs[c][1].bank,
                                   sy.programs[c][1].preset) # None
            THEN Some([sy.programs[c][1] EXCEPT !.id = id])
            ELSE sy.programs[c]]]

program_select(sy, channel, id, bank, preset) ==
    IF channel \in Channels /\ id \in sy.fonts
       /\ SoundFont_preset(id, bank, preset) # None
    THEN Some([sy EXCEPT !.programs[channel] =
                   Some([id |-> id, bank |-> bank, preset |-> preset])])
    ELSE None

\* Synth::channel_preset(channel).name()
channel_preset_name(sy, channel) ==
    LET selected == sy.programs[channel][1]
    IN  SoundFont_preset(selected.id, selected.bank, selected.preset)[1]

\* A call of the synthesizer, as remembered in fg.
SynthCall(name, channel, id, bank, preset, gain, ok) ==
    [call |-> name, channel |-> channel, id |-> id, bank |-> bank,
     preset |-> preset, gain |-> gain, ok |-> ok]

(***************************************************************************)
(* The commands of Conn::do_commands.                                      *)
(***************************************************************************)
LoadSoundFont(channel, path) ==
    [cmd |-> "LoadSoundFont", channel |-> channel, path |-> path,
     bank_index |-> 0, preset_index |-> 0, gain |-> 0]
SetProgram(channel, path, bank_index, preset_index) ==
    [cmd |-> "SetProgram", channel |-> channel, path |-> path,
     bank_index |-> bank_index, preset_index |-> preset_index, gain |-> 0]
UnsetProgram(channel) ==
    [cmd |-> "UnsetProgram", channel |-> channel, path |-> "",
     bank_index |-> 0, preset_index |-> 0, gain |-> 0]
SetGain(gain) ==
    [cmd |-> "SetGain", channel |-> 0, path |-> "",
     bank_index |-> 0, preset_index |-> 0, gain |-> gain]

\* The bank and preset indices that io can send for the loaded SoundFonts
\* fonts: those of the presets that the panel lists.
ProgramIndices(paths, fonts) ==
    {x \in (paths \cap DOMAIN fonts) \X (0..MaxBank) \X (0..MaxPreset) :
        /\ x[2] < Len(fonts[x[1]].keys)
        /\ x[3] < Len(fonts[x[1]].banks[fonts[x[1]].keys[x[2] + 1]])}

\* The commands for the channels and the SoundFont files of paths.
CommandsOf(channels, paths, fonts) ==
    {LoadSoundFont(c, p) : c \in channels, p \in paths}
        \cup {SetProgram(c, x[1], x[2], x[3]) :
                  c \in channels, x \in ProgramIndices(paths, fonts)}
        \cup {UnsetProgram(c) : c \in channels}
        \cup {SetGain(g) : g \in 0..MaxGain}

(***************************************************************************)
(* What do_commands works on: Conn.soundfonts, Conn.state, the             *)
(* synthesizer, the calls made of the synthesizer, and whether a command   *)
(* panicked.                                                               *)
(***************************************************************************)
ConnSynth(fonts, state, sy) ==
    [soundfonts |-> fonts, state |-> state, synth |-> sy, calls |-> <<>>,
     panicked |-> FALSE]

\* The Program of a preset of a loaded SoundFont.
Program(path, soundfont, bank, preset, preset_name) ==
    [path |-> path,
     num_banks |-> Len(soundfont.keys),
     bank_index |-> position(soundfont.keys, bank),
     bank |-> bank,
     num_presets |-> Len(soundfont.banks[bank]),
     preset_index |-> position(soundfont.banks[bank], preset),
     preset_name |-> preset_name,
     preset |-> preset]

\* A set_program that remembers the program whether or not the synthesizer
\* selected it.
set_program_unchecked(cs, channel, path, bank, preset, id) ==
    LET r == program_select(cs.synth, channel, id, bank, preset)
        call == SynthCall("program_select", channel, id, bank, preset, 0,
                          r # None)
        program == Program(path, cs.soundfonts[path], bank, preset,
                           SoundFont_preset(id, bank, preset)[1])
    IN  [cs EXCEPT !.synth = IF r # None THEN r[1] ELSE @,
                   !.state.programs[channel] = Some(program),
                   !.calls = Append(@, call)]

\* Conn::set_program: if the synthesizer selects the program, it is
\* remembered.
set_program(cs, channel, path, bank, preset, id) ==
    LET r == program_select(cs.synth, channel, id, bank, preset)
        call == SynthCall("program_select", channel, id, bank, preset, 0,
                          r # None)
    IN  IF r # None
        THEN LET program == Program(path, cs.soundfonts[path], bank, preset,
                                    channel_preset_name(r[1], channel))
             IN  [cs EXCEPT !.synth = r[1],
                            !.state.programs[channel] = Some(program),
                            !.calls = Append(@, call)]
        ELSE [cs EXCEPT !.calls = Append(@, call)]

\* A set_program_default that takes the first bank of the HashMap.
set_program_default_unsorted(cs, channel, path) ==
    LET soundfont == cs.soundfonts[path]
        bank == soundfont.keys[1]
        preset == soundfont.banks[bank][1]
    IN  set_program(cs, channel, path, bank, preset, soundfont.id)

\* Conn::set_program_default: the first preset of the first of the sorted
\* banks.
set_program_default(cs, channel, path) ==
    LET soundfont == cs.soundfonts[path]
        banks == SortedSeq(DOMAIN soundfont.banks)
        bank == banks[1]
        preset == soundfont.banks[bank][1]
    IN  set_program(cs, channel, path, bank, preset, soundfont.id)

\* A load that does not select the programs of the other channels again.
restore_programs_skipped(cs, channel, channels) == cs

\* The end of LoadSoundFont: the programs of the other channels whose
\* SoundFont is loaded are selected again; a selection that fails panics.
RECURSIVE restore_programs(_, _, _)
restore_programs(cs, channel, channels) ==
    IF channels = <<>> \/ cs.panicked THEN cs
    ELSE LET c == Head(channels)
             program == cs.state.programs[c]
         IN  IF c # channel /\ program # None
                /\ program[1].path \in DOMAIN cs.soundfonts
             THEN LET id == cs.soundfonts[program[1].path].id
                      r == program_select(cs.synth, c, id, program[1].bank,
                                          program[1].preset)
                      call == SynthCall("program_select", c, id,
                                        program[1].bank, program[1].preset,
                                        0, r # None)
                  IN  IF r = None
                      THEN [cs EXCEPT !.panicked = TRUE,
                                      !.calls = Append(@, call)]
                      ELSE restore_programs(
                               [cs EXCEPT !.synth = r[1],
                                          !.calls = Append(@, call)],
                               channel, Tail(channels))
             ELSE restore_programs(cs, channel, Tail(channels))

\* A Conn that finds no SoundFont in its map.
is_loaded_never(cs, path) == FALSE

\* self.soundfonts.get(path) is Some: the file has been loaded.
is_loaded(cs, path) == path \in DOMAIN cs.soundfonts

\* One command; keys gives the iteration order of the HashMap of a SoundFont
\* that the command loads.  Opening a file that is not on the disk, indexing
\* the SoundFonts by a path that is not loaded and indexing the banks or the
\* presets beyond their end panic.
do_command(cs, command, keys) ==
    CASE command.cmd = "LoadSoundFont" ->
           IF is_loaded(cs, command.path)
           THEN set_program_default(cs, command.channel, command.path)
           ELSE IF command.path \notin Paths
           THEN [cs EXCEPT !.panicked = TRUE]
           ELSE LET banks == SoundFontBanks_new(command.path,
                                                keys[command.path])
                    loaded ==
                        [cs EXCEPT
                            !.synth = add_font(@, banks.id),
                            !.calls = Append(@, SynthCall("add_font", 0,
                                                 banks.id, 0, 0, 0, TRUE)),
                            !.soundfonts =
                                [p \in DOMAIN @ \cup {command.path} |->
                                    IF p = command.path THEN banks ELSE @[p]]]
                IN  restore_programs(
                        set_program_default(loaded, command.channel,
                                            command.path),
                        command.channel, SortedSeq(CommandChannels))
      [] command.cmd = "SetProgram" ->
           IF command.path \notin DOMAIN cs.soundfonts
           THEN [cs EXCEPT !.panicked = TRUE]
           ELSE LET soundfont == cs.soundfonts[command.path]
                    banks == soundfont.keys
                IN  IF command.bank_index >= Len(banks)
                    THEN [cs EXCEPT !.panicked = TRUE]
                    ELSE LET bank == banks[command.bank_index + 1]
                         IN  IF command.preset_index
                                    >= Len(soundfont.banks[bank])
                             THEN [cs EXCEPT !.panicked = TRUE]
                             ELSE set_program(
                                      cs, command.channel, command.path, bank,
                                      soundfont.banks[bank][
                                          command.preset_index + 1],
                                      soundfont.id)
      [] command.cmd = "UnsetProgram" ->
           [cs EXCEPT !.state.programs[command.channel] = None]
      [] command.cmd = "SetGain" ->
           [cs EXCEPT !.synth.gain = command.gain,
                      !.state.gain = command.gain,
                      !.calls = Append(@, SynthCall("set_gain", 0, "", 0, 0,
                                                    command.gain, TRUE))]

\* The commands of a slice in turn, up to one that panics.
RECURSIVE do_command_list(_, _, _)
do_command_list(cs, commands, keys) ==
    IF commands = <<>> \/ cs.panicked THEN cs
    ELSE do_command_list(do_command(cs, Head(commands), keys),
                         Tail(commands), keys)

\* Every command but UnsetProgram locks the synthesizer.  A panic ends the
\* process: there is no step then.
do_commands(commands) ==
    /\ (\E i \in 1..Len(commands) : commands[i].cmd # "UnsetProgram")
           => SynthFree
    /\ \E keys \in HashOrders :
       \E cs \in {do_command_list(ConnSynth(soundfonts, conn_state, synth),
                                  commands, keys)} :
             /\ ~cs.panicked
             /\ soundfonts' = cs.soundfonts
             /\ conn_state' = cs.state
             /\ synth' = cs.synth
             /\ fg' = Call("do_commands", cs.calls)
    /\ UNCHANGED <<io_vars, own_vars, music, exporter, play_state, export_state,
                   midi_event_queue, workers>>

(***************************************************************************)
(* Save::read: the project, the export settings and the SynthState of the  *)
(* save file replace those of the session; then the gain is set and, for   *)
(* every saved program whose SoundFont file is on the disk, the SoundFont  *)
(* is loaded and the program is set by its saved indices.  The programs    *)
(* are taken in the order in which their HashMap iterates.                 *)
(***************************************************************************)
\* The programs that a session can have saved for a SoundFont file: those of
\* its presets, with the indices of any iteration order of its banks.
SavedPrograms(path) ==
    {Program(path, SoundFontBanks_new(path, keys), x[1], x[2],
             SoundFont_preset(path, x[1], x[2])[1]) :
        keys \in KeyOrders(bank_numbers(path)),
        x \in {y \in (0..MaxBank) \X (0..MaxPreset) :
                   SoundFont_preset(path, y[1], y[2]) # None}}

\* The SynthStates of the save files: at most MaxSavedPrograms channels of
\* the synthesizer have a program.
SynthStates ==
    {st \in [programs : [CommandChannels ->
                            {None} \cup {Some(p) : p \in UNION
                                {SavedPrograms(path) :
                                     path \in FirstPaths \cup {GonePath}}}],
             gain : 0..MaxGain] :
        /\ \A c \in CommandChannels \ Channels : st.programs[c] = None
        /\ Cardinality({c \in Channels : st.programs[c] # None})
               <= MaxSavedPrograms}

\* The save files: the project is empty or has one track without notes.
Saves ==
    [state : {m \in Musics : /\ Len(m) <= 1
                             /\ \A i \in 1..Len(m) :
                                    /\ m[i].notes = <<>>
                                    /\ ~m[i].mute
                                    /\ ~m[i].solo},
     synth_state : SynthStates,
     exporter : {e \in Exporters : /\ e.export_type = "Wav"
                                   /\ ~e.multi_file
                                   /\ e.multi_file_suffix = "Channel"}]

\* conn.state = s.synth_state
Save_read_synth_state(save, state) == save.synth_state

\* The commands that Save::read sends, for the saved channels in an order.
Save_read_commands(save, channels) ==
    LET programs == save.synth_state.programs
        on_disk == SelectSeq(channels,
                             LAMBDA c : programs[c][1].path \in Paths)
    IN  <<SetGain(save.synth_state.gain)>>
        \o [i \in 1..Len(on_disk) |->
               LoadSoundFont(on_disk[i], programs[on_disk[i]][1].path)]
        \o [i \in 1..Len(on_disk) |->
               SetProgram(on_disk[i], programs[on_disk[i]][1].path,
                          programs[on_disk[i]][1].bank_index,
                          programs[on_disk[i]][1].preset_index)]

Save_read(save) ==
    /\ SynthFree
    /\ \E keys \in HashOrders :
       \E channels \in KeyOrders({c \in CommandChannels :
                                     save.synth_state.programs[c] # None}) :
       \E cs \in {do_command_list(
                       ConnSynth(soundfonts,
                                 Save_read_synth_state(save, conn_state),
                                 synth),
                       Save_read_commands(save, channels), keys)} :
             /\ ~cs.panicked
             /\ soundfonts' = cs.soundfonts
             /\ conn_state' = cs.state
             /\ synth' = cs.synth
             /\ fg' = Call("Save::read", cs.calls)
    /\ music' = save.state
    /\ exporter' = save.exporter
    /\ UNCHANGED <<io_vars, own_vars, play_state, export_state, midi_event_queue,
                   workers>>

\* A Program that was saved when the file at the path had the preset
\* MaxPreset in the bank MaxBank, which the file of today does not have.
StaleProgram(path) ==
    [path |-> path, num_banks |-> 1, bank_index |-> 0, bank |-> MaxBank,
     num_presets |-> 1, preset_index |-> 0, preset_name |-> "Organ",
     preset |-> MaxPreset]

\* The save files of a project with two channels on one SoundFont file that
\* has changed since: the Program of channel 1 is stale.
StaleSaves ==
    UNION {
    {[state |-> <<>>,
      synth_state |->
          [programs |-> [c \in CommandChannels |->
                            IF c = 0 THEN Some(program)
                            ELSE IF c = 1 THEN Some(StaleProgram(path))
                            ELSE None],
           gain |-> MaxGain],
      exporter |-> [export_type |-> "Wav", multi_file |-> FALSE,
                    multi_file_suffix |-> "Channel",
                    framerate |-> ExportFramerate]] :
        program \in SavedPrograms(path)} : path \in FirstPaths}

\* A Save::read that panics in its commands: the process ends there, with
\* the project and the settings of the save file and the Conn as the
\* commands before the panic left it.
Save_read_panics(save) ==
    /\ SynthFree
    /\ \E keys \in HashOrders :
       \E channels \in KeyOrders({c \in CommandChannels :
                                     save.synth_state.programs[c] # None}) :
       \E cs \in {do_command_list(
                       ConnSynth(soundfonts,
                                 Save_read_synth_state(save, conn_state),
                                 synth),
                       Save_read_commands(save, channels), keys)} :
             /\ cs.panicked
             /\ soundfonts' = cs.soundfonts
             /\ conn_state' = cs.state
             /\ synth' = cs.synth
             /\ fg' = Call("panic", cs.calls)
    /\ music' = save.state
    /\ exporter' = save.exporter
    /\ UNCHANGED <<io_vars, own_vars, play_state, export_state, midi_event_queue,
                   workers>>

(***************************************************************************)
(* Conn::start_music: the events of one track, a note-on and a note-off    *)
(* per playback note, appended to the queue.                               *)
(***************************************************************************)
RECURSIVE EnqueueNotes(_, _, _, _)
EnqueueNotes(q, channel, notes, framerate) ==
    IF notes = <<>> THEN q
    ELSE LET note == Head(notes)
             q1 == enqueue(q, ppq_to_samples(note.start, framerate),
                           NoteOn(channel, note.note, note.velocity))
             q2 == enqueue(q1, ppq_to_samples(note.end, framerate),
                           NoteOff(channel, note.note))
         IN  EnqueueNotes(q2, channel, Tail(notes), framerate)

RECURSIVE EnqueuePlayback(_, _, _)
EnqueuePlayback(q, tracks, playback) ==
    IF tracks = <<>> THEN q
    ELSE EnqueuePlayback(
             EnqueueNotes(q, Head(tracks).channel,
                          MidiTrack_get_playback_notes(Head(tracks), playback),
                          PlayerFramerate),
             Tail(tracks), playback)

\* The live queue after start_music: every event enqueued, then sorted.
start_music_queue(q, m, playback) ==
    sort(EnqueuePlayback(q, Music_get_playable_tracks(m), playback))

start_music(playback) ==
    /\ SynthFree
    /\ synth' = [synth EXCEPT !.rate = PlayerFramerate]
    /\ midi_event_queue' = start_music_queue(midi_event_queue, music, playback)
    /\ Len(midi_event_queue') <= MaxQueue
    /\ play_state' = Playing(ppq_to_samples(playback, PlayerFramerate))
    /\ fg' = Call("start_music", <<>>)
    /\ UNCHANGED <<io_vars, own_vars, soundfonts, conn_state, music, exporter,
                   export_state, workers>>

(***************************************************************************)
(* Conn::stop_music: all-notes-off and all-sound-off to the channel of     *)
(* every track, then the play state is set to Decaying.                    *)
(***************************************************************************)
\* The calls of send_event, of which the synthesizer rejects some: the
\* all-sound-off of a track is sent if its all-notes-off was taken.
RECURSIVE StopEvents(_, _)
StopEvents(tracks, rejected) ==
    IF tracks = <<>> THEN <<>>
    ELSE (IF AllNotesOff(Head(tracks).channel) \in rejected
          THEN <<AllNotesOff(Head(tracks).channel)>>
          ELSE <<AllNotesOff(Head(tracks).channel),
                 AllSoundOff(Head(tracks).channel)>>)
         \o StopEvents(Tail(tracks), rejected)

\* The events that stop_music may send.
StopRequests(tracks) ==
    UNION {{AllNotesOff(tracks[i].channel), AllSoundOff(tracks[i].channel)} :
               i \in 1..Len(tracks)}

stop_music ==
    /\ SynthFree
    /\ \E rejected \in SUBSET StopRequests(music) :
         fg' = Call("stop_music", StopEvents(music, rejected))
    /\ play_state' = Decaying
    /\ UNCHANGED <<io_vars, own_vars, soundfonts, conn_state, music, exporter,
                   export_state, synth, midi_event_queue, workers>>

(***************************************************************************)
(* Conn::set_music: start if nothing is playing, else stop.                *)
(***************************************************************************)
set_music(playback) ==
    IF play_state.tag = "NotPlaying" THEN start_music(playback) ELSE stop_music

\* An enqueue_track_events that puts the note-on of a note at its end.
RECURSIVE enqueue_track_events_on_at_end(_, _, _, _, _, _)
enqueue_track_events_on_at_end(channel, notes, events, t1, gain, framerate) ==
    IF notes = <<>> THEN <<events, t1>>
    ELSE LET note == Head(notes)
             end == ppq_to_samples(note.end, framerate)
             e1 == enqueue(events, end,
                           NoteOn(channel, note.note,
                                  as_u8(f_mul(note.velocity, gain, F32))))
             e2 == enqueue(e1, end, NoteOff(channel, note.note))
         IN  enqueue_track_events_on_at_end(channel, Tail(notes), e2,
                                            IF t1 < end THEN end ELSE t1,
                                            gain, framerate)

\* An enqueue_track_events that leaves in t1 the end of the last note.
RECURSIVE enqueue_track_events_last_end(_, _, _, _, _, _)
enqueue_track_events_last_end(channel, notes, events, t1, gain, framerate) ==
    IF notes = <<>> THEN <<events, t1>>
    ELSE LET note == Head(notes)
             e1 == enqueue(events, ppq_to_samples(note.start, framerate),
                           NoteOn(channel, note.note,
                                  as_u8(f_mul(note.velocity, gain, F32))))
             end == ppq_to_samples(note.end, framerate)
             e2 == enqueue(e1, end, NoteOff(channel, note.note))
         IN  enqueue_track_events_last_end(channel, Tail(notes), e2, end,
                                           gain, framerate)

\* An enqueue_track_events that leaves the velocities as they are stored.
RECURSIVE enqueue_track_events_unscaled(_, _, _, _, _, _)
enqueue_track_events_unscaled(channel, notes, events, t1, gain, framerate) ==
    IF notes = <<>> THEN <<events, t1>>
    ELSE LET note == Head(notes)
             e1 == enqueue(events, ppq_to_samples(note.start, framerate),
                           NoteOn(channel, note.note, note.velocity))
             end == ppq_to_samples(note.end, framerate)
             e2 == enqueue(e1, end, NoteOff(channel, note.note))
         IN  enqueue_track_events_unscaled(channel, Tail(notes), e2,
                                           IF t1 < end THEN end ELSE t1, gain,
                                           framerate)

(***************************************************************************)
(* Conn::enqueue_track_events: a note-on and a note-off per note of the    *)
(* track, at the export framerate; t1 becomes the latest note end.         *)
(* The result is <<events, t1>>.                                           *)
(***************************************************************************)
RECURSIVE enqueue_track_events(_, _, _, _, _, _)
enqueue_track_events(channel, notes, events, t1, gain, framerate) ==
    IF notes = <<>> THEN <<events, t1>>
    ELSE LET note == Head(notes)
             e1 == enqueue(events, ppq_to_samples(note.start, framerate),
                           NoteOn(channel, note.note,
                                  as_u8(f_mul(note.velocity, gain, F32))))
             end == ppq_to_samples(note.end, framerate)
             e2 == enqueue(e1, end, NoteOff(channel, note.note))
         IN  enqueue_track_events(channel, Tail(notes), e2,
                                  IF t1 < end THEN end ELSE t1, gain,
                                  framerate)

\* The outcome of a call that panics.
Panic == "panic"

(***************************************************************************)
(* Conn::get_export_file_suffix: the channel, the name of the preset of    *)
(* the channel's program, or both; a suffix is the list of its parts.      *)
(* With a preset policy the program of the channel is unwrapped, which     *)
(* panics when the channel has none.                                       *)
(***************************************************************************)
get_export_file_suffix(track, cfg, programs) ==
    CASE cfg.multi_file_suffix = "Channel" -> <<track.channel>>
      [] cfg.multi_file_suffix = "Preset" ->
           IF programs[track.channel] = None THEN Panic
           ELSE <<programs[track.channel][1].preset_name>>
      [] cfg.multi_file_suffix = "ChannelAndPreset" ->
           IF programs[track.channel] = None THEN Panic
           ELSE <<track.channel, programs[track.channel][1].preset_name>>

\* One Exportable of a track (multi-file export).
TrackExportable(track, cfg, programs) ==
    LET r == enqueue_track_events(track.channel, track.notes, <<>>, 0,
                                  MidiTrack_get_gain_f(track), cfg.framerate)
    IN  [events |-> sort(r[1]), total_samples |-> r[2],
         suffix |-> Some(get_export_file_suffix(track, cfg, programs))]

RECURSIVE CombinedEvents(_, _, _, _)
CombinedEvents(tracks, events, t1, framerate) ==
    IF tracks = <<>> THEN <<events, t1>>
    ELSE LET r == enqueue_track_events(Head(tracks).channel, Head(tracks).notes,
                                       events, t1,
                                       MidiTrack_get_gain_f(Head(tracks)),
                                       framerate)
         IN  CombinedEvents(Tail(tracks), r[1], r[2], framerate)

\* Exportables of every track, playable or not.
Exportables_all_tracks(m, cfg, programs) ==
    IF cfg.multi_file
    THEN [i \in 1..Len(m) |-> TrackExportable(m[i], cfg, programs)]
    ELSE LET r == CombinedEvents(m, <<>>, 0, cfg.framerate)
         IN  <<[events |-> sort(r[1]), total_samples |-> r[2],
                suffix |-> None]>>

\* The Exportables that start_export hands to the worker.
Exportables(m, cfg, programs) ==
    LET tracks == Music_get_playable_tracks(m)
    IN  IF cfg.multi_file
        THEN [i \in 1..Len(tracks) |->
                  TrackExportable(tracks[i], cfg, programs)]
        ELSE LET r == CombinedEvents(tracks, <<>>, 0, cfg.framerate)
             IN  <<[events |-> sort(r[1]), total_samples |-> r[2],
                    suffix |-> None]>>

(***************************************************************************)
(* An export worker thread.  pc is its place in Conn::export:              *)
(*   idle      no thread                                                   *)
(*   next      at the head of the loop over the exportables                *)
(*   lock      about to lock the synthesizer for the exportable            *)
(*   render    in the sample loop                                          *)
(*   decay     in the decay loop                                           *)
(*   encode    about to write the file                                     *)
(*   restore   after the loop, about to restore the framerate              *)
(*   panicked  the thread panicked                                         *)
(***************************************************************************)
NoWrite == [tag |-> "none", total_samples |-> 0, exported_samples |-> 0]

(***************************************************************************)
(* The Decayer: decay_two_channels appends a sample to both buffers and    *)
(* stops decaying once the sound is silent, or once MaxDecay samples have  *)
(* been appended since it started; it then starts anew.  Whether the sound *)
(* is silent is for the synthesizer to say.                                *)
(***************************************************************************)
Decayer_default == [decaying |-> FALSE, extra |-> 0]

decay_two_channels(decayer, silent) ==
    IF silent \/ decayer.extra + 1 >= MaxDecay
    THEN [decaying |-> FALSE, extra |-> 0]
    ELSE [decaying |-> TRUE, extra |-> decayer.extra + 1]

IdleWorker ==
    [pc |-> "idle", exportables |-> <<>>, cur |-> 0, events |-> <<>>, t |-> 0,
     left |-> <<>>, right |-> <<>>, rendered |-> <<>>, applied |-> <<>>,
     decay |-> 0, exporter |-> [export_type |-> "Wav", multi_file |-> FALSE,
                                multi_file_suffix |-> "Channel",
                                framerate |-> ExportFramerate],
     last |-> NoWrite, files |-> <<>>,
     decayer |-> Decayer_default]

Alive(w) == workers[w].pc \notin {"idle", "panicked"}

(***************************************************************************)
(* Conn::start_export: set the export framerate, build the exportables     *)
(* and spawn a worker with a clone of the exporter.  A panic of            *)
(* get_export_file_suffix ends the process: there is no step then.         *)
(***************************************************************************)
SpawnedWorker(m, cfg, programs) ==
    [IdleWorker EXCEPT !.pc = "next",
                       !.exportables = Exportables(m, cfg, programs),
                       !.cur = 1, !.exporter = cfg,
                       !.decayer = Decayer_default]

start_export ==
    /\ SynthFree
    /\ LET exportables == Exportables(music, exporter, conn_state.programs)
       IN  \A i \in 1..Len(exportables) : exportables[i].suffix # Some(Panic)
    /\ \E w \in Workers :
         /\ workers[w].pc = "idle"
         /\ \A v \in 1..(w - 1) : workers[v].pc # "idle"
         /\ workers' = [workers EXCEPT ![w] =
                SpawnedWorker(music, exporter, conn_state.programs)]
    /\ synth' = [synth EXCEPT !.rate = exporter.framerate]
    /\ fg' = Call("start_export", <<>>)
    /\ UNCHANGED <<io_vars, own_vars, soundfonts, conn_state, music, exporter,
                   play_state, export_state, midi_event_queue>>

\* Conn::exporting
exporting == export_state # NotExporting

(***************************************************************************)
(* Conn::export, the body of a worker thread, one step per lock taken or   *)
(* loop iteration.                                                         *)
(***************************************************************************)
\* Conn::set_export_state and set_export_state_wav, called by worker w.
SetExportState(w, rec, state) ==
    /\ export_state' = state
    /\ workers' = [workers EXCEPT ![w] = [rec EXCEPT !.last = state]]

\* A set_export_state_wav that counts the sample being rendered as exported.
set_export_state_wav_late(exportable, exported_samples) ==
    WritingWav(exportable.total_samples, exported_samples + 1)

\* The state that set_export_state_wav writes.
set_export_state_wav(exportable, exported_samples) ==
    WritingWav(exportable.total_samples, exported_samples)

Zeros(n) == [i \in 1..n |-> 0]

\* Synth::read_next: the sample the synthesizer gives after these events.
read_next(applied) == Len(applied) + 1

\* The head of the loop: the buffers and the first state of the next
\* exportable, or the end of the export.
WorkerNext(w) ==
    LET me == workers[w] IN
    /\ me.pc = "next"
    /\ IF me.cur > Len(me.exportables)
       THEN SetExportState(w, [me EXCEPT !.pc = "restore"], NotExporting)
       ELSE LET exportable == me.exportables[me.cur]
                total_samples == exportable.total_samples
            IN  SetExportState(w,
                    [me EXCEPT !.pc = "lock", !.events = exportable.events,
                               !.t = 0, !.left = Zeros(total_samples),
                               !.right = Zeros(total_samples),
                               !.rendered = <<>>, !.applied = <<>>],
                    set_export_state_wav(exportable, 0))
    /\ UNCHANGED <<io_vars, own_vars, soundfonts, conn_state, music, exporter,
                   play_state, synth, midi_event_queue, fg>>

\* let mut synth = synth.lock(), held until the end of the loop body.
WorkerLock(w) ==
    /\ workers[w].pc = "lock"
    /\ SynthFree
    /\ synth' = [synth EXCEPT !.lock = w]
    /\ workers' = [workers EXCEPT ![w].pc = "render"]
    /\ UNCHANGED <<io_vars, own_vars, soundfonts, conn_state, music, exporter,
                   play_state, export_state, midi_event_queue, fg>>

\* A sample loop that reads the sample before it sends the events due.
RenderSample_read_first(me) ==
    LET d == dequeue(me.events, me.t)
    IN  [me EXCEPT !.events = d[2], !.applied = me.applied \o d[1],
                   !.left[me.t + 1] = read_next(me.applied),
                   !.right[me.t + 1] = read_next(me.applied),
                   !.rendered = Append(me.rendered, me.t),
                   !.t = me.t + 1]

\* One sample: send the events that are due, set the state, read the sample.
RenderSample(me) ==
    LET d == dequeue(me.events, me.t)
        applied == me.applied \o d[1]
    IN  [me EXCEPT !.events = d[2], !.applied = applied,
                   !.left[me.t + 1] = read_next(applied),
                   !.right[me.t + 1] = read_next(applied),
                   !.rendered = Append(me.rendered, me.t),
                   !.t = me.t + 1]

WorkerRender(w) ==
    LET me == workers[w]
        total_samples == me.exportables[me.cur].total_samples
    IN
    /\ me.pc = "render"
    /\ IF me.t < total_samples
       THEN SetExportState(w, RenderSample(me),
                           set_export_state_wav(me.exportables[me.cur], me.t))
       ELSE SetExportState(w, [me EXCEPT !.pc = "decay", !.decay = 0,
                                         !.decayer.decaying = TRUE],
                           AppendingDecay)
    /\ UNCHANGED <<io_vars, own_vars, soundfonts, conn_state, music, exporter,
                   play_state, synth, midi_event_queue, fg>>

\* A decay loop that does not read decayer.decaying.
WorkerDecay_endless(w) ==
    LET me == workers[w] IN
    /\ me.pc = "decay"
    /\ \E silent \in BOOLEAN :
         workers' = [workers EXCEPT ![w] =
             [me EXCEPT !.left = Append(me.left, read_next(me.applied)),
                        !.right = Append(me.right, read_next(me.applied)),
                        !.decay = IF me.decay < MaxDecay + 1
                                  THEN me.decay + 1 ELSE me.decay,
                        !.decayer = decay_two_channels(me.decayer, silent)]]
    /\ UNCHANGED <<io_vars, own_vars, soundfonts, conn_state, music, exporter,
                   play_state, synth, midi_event_queue, fg, export_state>>

\* while decayer.decaying { decayer.decay_two_channels(..) }: one call of
\* the loop; when the decayer has stopped the state is WritingToDisk.
WorkerDecay(w) ==
    LET me == workers[w] IN
    /\ me.pc = "decay"
    /\ \E silent \in BOOLEAN :
         LET decayer == decay_two_channels(me.decayer, silent)
             appended ==
                 [me EXCEPT !.left = Append(me.left, read_next(me.applied)),
                            !.right = Append(me.right, read_next(me.applied)),
                            !.decay = me.decay + 1,
                            !.decayer = decayer]
         IN  IF decayer.decaying
             THEN /\ workers' = [workers EXCEPT ![w] = appended]
                  /\ UNCHANGED export_state
             ELSE SetExportState(w, [appended EXCEPT !.pc = "encode"],
                                 WritingToDisk)
    /\ UNCHANGED <<io_vars, own_vars, soundfonts, conn_state, music, exporter,
                   play_state, synth, midi_event_queue, fg>>

\* Extension::from(ExportType): the file extension of an export type.
Extension_from(export_type) ==
    CASE export_type = "Wav" -> ".wav"
      [] export_type = "MP3" -> ".mp3"
      [] export_type = "Ogg" -> ".ogg"
      [] export_type = "Flac" -> ".flac"
      [] export_type = "Mid" -> ".mid"

\* The path of the file of an exportable: {filename}_{suffix}{extension},
\* or {filename}{extension} without a suffix.  The directory and the
\* filename are those of the one export path, so that the path is the list
\* of what follows the filename; the extension is that of the export type of
\* the worker's exporter.
export_path(exportable, export_type) ==
    (IF exportable.suffix # None THEN <<"_">> \o exportable.suffix[1]
     ELSE <<>>) \o <<Extension_from(export_type)>>

\* The paths written by the worker, with that of the exportable: a file
\* written to the path of an earlier one replaces it.
write_file(me) ==
    [me EXCEPT !.files = Append(me.files,
                                export_path(me.exportables[me.cur],
                                            me.exporter.export_type))]

\* A worker that reads the live export settings when it writes the file.
WorkerEncode_live_exporter(w) ==
    LET me == workers[w] IN
    /\ me.pc = "encode"
    /\ IF exporter.export_type = "Mid"
       THEN /\ workers' = [workers EXCEPT ![w].pc = "panicked"]
            /\ UNCHANGED export_state
       ELSE SetExportState(w,
                [me EXCEPT !.files = Append(me.files,
                                            export_path(me.exportables[me.cur],
                                                        exporter.export_type)),
                           !.pc = "next", !.cur = me.cur + 1], Done)
    /\ synth' = [synth EXCEPT !.lock = 0]
    /\ UNCHANGED <<io_vars, own_vars, soundfonts, conn_state, music, exporter,
                   play_state, midi_event_queue, fg>>

\* A worker that keeps the synthesizer lock after it has written the file.
WorkerEncode_keeps_lock(w) ==
    LET me == workers[w] IN
    /\ me.pc = "encode"
    /\ IF me.exporter.export_type = "Mid"
       THEN /\ workers' = [workers EXCEPT ![w].pc = "panicked"]
            /\ UNCHANGED export_state
       ELSE SetExportState(w, [write_file(me) EXCEPT !.pc = "next",
                                                    !.cur = me.cur + 1], Done)
    /\ UNCHANGED <<io_vars, own_vars, soundfonts, conn_state, music, exporter,
                   play_state, synth, midi_event_queue, fg>>

\* The file is written, the state is Done and the lock is released; for a
\* .mid export the thread panics, which releases the lock too.
WorkerEncode(w) ==
    LET me == workers[w] IN
    /\ me.pc = "encode"
    /\ IF me.exporter.export_type = "Mid"
       THEN /\ workers' = [workers EXCEPT ![w].pc = "panicked"]
            /\ UNCHANGED export_state
       ELSE SetExportState(w, [write_file(me) EXCEPT !.pc = "next",
                                                    !.cur = me.cur + 1], Done)
    /\ synth' = [synth EXCEPT !.lock = 0]
    /\ UNCHANGED <<io_vars, own_vars, soundfonts, conn_state, music, exporter,
                   play_state, midi_event_queue, fg>>

\* synth.lock().set_sample_rate(player_framerate); the thread ends.
WorkerRestore(w) ==
    /\ workers[w].pc = "restore"
    /\ SynthFree
    /\ synth' = [synth EXCEPT !.rate = PlayerFramerate]
    /\ workers' = [workers EXCEPT ![w] = IdleWorker]
    /\ UNCHANGED <<io_vars, own_vars, soundfonts, conn_state, music, exporter,
                   play_state, export_state, midi_event_queue, fg>>

(***************************************************************************)
(* The player's audio callback: while Playing it dequeues the events that  *)
(* are due and advances, and decays at the end of the events; once the     *)
(* decay is over nothing is playing.                                       *)
(***************************************************************************)
PlayerTick ==
    /\ play_state.tag = "Playing"
    /\ SynthFree
    /\ ~starting.queue_locked
    /\ LET d == dequeue(midi_event_queue, play_state.start)
       IN  /\ midi_event_queue' = d[2]
           /\ play_state' = IF d[2] = <<>> THEN Decaying
                            ELSE Playing(play_state.start + 1)
    /\ UNCHANGED <<io_vars, own_vars, soundfonts, conn_state, music, exporter,
                   export_state, synth, workers, fg>>

PlayerDecayed ==
    /\ play_state = Decaying
    /\ SynthFree
    /\ play_state' = NotPlaying
    /\ UNCHANGED <<io_vars, own_vars, soundfonts, conn_state, music, exporter,
                   export_state, synth, midi_event_queue, workers, fg>>

(***************************************************************************)
(* The commands that io sends to the Conn: a command, its numbers and its  *)
(* paths.  A path is the list of the suffixes added to the root path.      *)
(***************************************************************************)
Command(cmd, args, paths) == [cmd |-> cmd, args |-> args, paths |-> paths]

SetFramerate(framerate) == Command("SetFramerate", <<framerate>>, <<>>)
PlayMusic(time) == Command("PlayMusic", <<time>>, <<>>)
NoteOnAt(channel, key, velocity, start, end) ==
    Command("NoteOnAt", <<channel, key, velocity, start, end>>, <<>>)
SoundOff == Command("SoundOff", <<>>, <<>>)
\* state is the total of ExportState::new(t1)
Export(path, state) == Command("Export", <<state>>, <<path>>)
StopMusic == Command("StopMusic", <<>>, <<>>)
StopMusicAt(time) == Command("StopMusicAt", <<time>>, <<>>)
AppendSilences(paths) == Command("AppendSilences", <<>>, paths)

\* get_playback_notes of io: the notes of the track, their velocities scaled
\* by the gain of the track, in their sort order (a track of the model has at
\* most one note).
get_playback_notes(track) ==
    LET gain == f_div(track.gain, MAX_VOLUME, F64)
    IN  [i \in 1..Len(track.notes) |->
             [track.notes[i] EXCEPT !.velocity = as_u8(f_mul(@, gain, F64))]]

\* The loop over the notes of a track that combine_tracks_to_commands and
\* queue_multi_file_export share: a NoteOnAt per note that starts at t0 or
\* later, and the latest end.  The result is <<commands, t1>>.
RECURSIVE note_commands(_, _, _, _, _, _)
note_commands(channel, notes, commands, t0, t1, framerate) ==
    IF notes = <<>> THEN <<commands, t1>>
    ELSE LET note == Head(notes)
             start == ppq_to_samples(note.start, framerate)
             end == ppq_to_samples(note.end, framerate)
         IN  IF start < t0
             THEN note_commands(channel, Tail(notes), commands, t0, t1,
                                framerate)
             ELSE note_commands(channel, Tail(notes),
                                Append(commands,
                                       NoteOnAt(channel, note.note,
                                                note.velocity, start, end)),
                                t0, IF end > t1 THEN end ELSE t1, framerate)

RECURSIVE track_commands(_, _, _, _, _)
track_commands(tracks, commands, t0, t1, framerate) ==
    IF tracks = <<>> THEN <<commands, t1>>
    ELSE LET r == the({note_commands(Head(tracks).channel, notes, commands,
                                     t0, t1, framerate) :
                           notes \in {get_playback_notes(Head(tracks))}})
         IN  track_commands(Tail(tracks), r[1], t0, r[2], framerate)

\* combine_tracks_to_commands: <<commands, t1>>
combine_tracks_to_commands(m, framerate, start_time) ==
    LET t0 == ppq_to_samples(start_time, framerate)
        r == track_commands(get_playable_tracks(m),
                            <<PlayMusic(t0), SetFramerate(framerate)>>,
                            t0, t0, framerate)
    IN  <<Append(r[1], StopMusicAt(r[2])), r[2]>>

\* A batch of the export queue (QueuedExportCommands).
Batch(commands, state) == [commands |-> commands, export_state |-> state]

\* The path of the file of a track, with the Channel suffix.
track_path(path, track) == Append(path, track.channel)

\* The batch that queue_multi_file_export pushes for a track.
track_batch(path, track, framerate) ==
    LET t0 == ppq_to_samples(0, framerate)
        r == the({note_commands(track.channel, notes,
                                <<SetFramerate(framerate), PlayMusic(t0)>>,
                                t0, t0, framerate) :
                      notes \in {get_playback_notes(track)}})
    IN  Batch(r[1] \o <<SoundOff, Export(track_path(path, track), r[2])>>,
              Some(r[2]))

(***************************************************************************)
(* IO::queue_multi_file_export: the queue is cleared, then gets a batch    *)
(* per playable track and a last batch that stops the music and appends    *)
(* silences to the files.                                                  *)
(***************************************************************************)
queue_multi_file_export(path, m, cfg) ==
    LET tracks == get_playable_tracks(m)
    IN  [i \in 1..Len(tracks) |-> track_batch(path, tracks[i], cfg.framerate)]
        \o <<Batch(<<StopMusic,
                     AppendSilences([i \in 1..Len(tracks) |->
                                        track_path(path, tracks[i])])>>,
                   None)>>

(***************************************************************************)
(* IO::export: the export panel is enabled; a multi-file export is queued, *)
(* a single-file export sets the export state and is sent at once.  io is  *)
(* the queue, the export state and the messages sent so far this frame.    *)
(***************************************************************************)
export(path, m, cfg, io) ==
    IF cfg.multi_file
    THEN [io EXCEPT !.export_queue = queue_multi_file_export(path, m, cfg),
                    !.panel = "ExportState"]
    ELSE LET r == combine_tracks_to_commands(m, cfg.framerate, 0)
         IN  [io EXCEPT !.conn_export_state = Some(r[2]),
                        !.sent = Append(io.sent,
                                        <<SoundOff, Export(path, r[2])>> \o r[1]),
                        !.panel = "ExportState"]

(***************************************************************************)
(* IO::update, one frame.  The input is Quit, ExportFile, Export (the      *)
(* focused panel returns IOCommand::Export with the root path), or         *)
(* anything else.                                                          *)
(***************************************************************************)
IOInputs == {"None", "Quit", "ExportFile", "Export"}

ExportRequests == {"ExportFile", "Export"}

Frame(input, sent, popped, started, dropped, done) ==
    [input |-> input, sent |-> sent, popped |-> popped, started |-> started,
     dropped |-> dropped, done |-> done]

\* if conn.export_state.is_none() && !self.export_queue.is_empty()
drain_ready(state, queue) == state = None /\ queue # <<>>

\* An update that goes on while an export is in flight.
exporting_return_never(state) == FALSE

\* if conn.export_state.is_some() { return false; }
exporting_return(state) == state # None

\* The queue, the export state, the panel and the messages after the head
\* of update.
Drained ==
    IF drain_ready(conn_export_state, export_queue)
    THEN [export_queue |-> Tail(export_queue),
          conn_export_state |-> Head(export_queue).export_state,
          sent |-> <<Head(export_queue).commands>>,
          panel |-> "ExportState"]
    ELSE [export_queue |-> export_queue,
          conn_export_state |-> conn_export_state,
          sent |-> <<>>,
          panel |-> panel]

update(input) ==
    /\ ~frame.done
    /\ LET popped == IF drain_ready(conn_export_state, export_queue)
                     THEN Some(Head(export_queue)) ELSE None
           returned == input # "Quit" /\ exporting_return(Drained.conn_export_state)
       IN  \E io \in {IF input = "Quit"
                      THEN [export_queue |-> export_queue,
                            conn_export_state |-> conn_export_state,
                            sent |-> <<>>, panel |-> panel]
                      ELSE IF exporting_return(Drained.conn_export_state)
                      THEN Drained
                      ELSE IF input = "ExportFile"
                      THEN [Drained EXCEPT !.panel = "OpenFile"]
                      ELSE IF input = "Export"
                      THEN export(<<>>, music, exporter, Drained)
                      ELSE Drained} :
               /\ export_queue' = io.export_queue
               /\ conn_export_state' = io.conn_export_state
               /\ panel' = io.panel
               /\ frame' = Frame(input, io.sent,
                                 IF input = "Quit" THEN None ELSE popped,
                                 input = "Export" /\ ~returned,
                                 input \in ExportRequests /\ returned,
                                 input = "Quit")
    /\ UNCHANGED <<conn_vars, own_vars>>

(***************************************************************************)
(* The Conn ends the export that is in flight: conn.export_state is None   *)
(* again.                                                                  *)
(***************************************************************************)
export_done ==
    /\ conn_export_state # None
    /\ conn_export_state' = None
    /\ UNCHANGED <<conn_vars, own_vars, export_queue, panel, frame>>

(***************************************************************************)
(* A MidiEventQueue on which enqueue is called some times, then sort, then *)
(* dequeue.  mq.enqueued is the list of the enqueue calls, mq.calls the    *)
(* dequeue calls: the time, the events returned and the queue left.        *)
(***************************************************************************)
QueueEvents == {NoteOn(0, 60, MAX_VOLUME), NoteOff(0, 60)}

mq_enqueue(time, event) ==
    /\ mq.phase = "enqueue"
    /\ Len(mq.enqueued) < MaxEnqueue
    /\ mq' = [mq EXCEPT !.queue = enqueue(mq.queue, time, event),
                        !.enqueued = enqueue(mq.enqueued, time, event)]
    /\ UNCHANGED <<conn_vars, io_vars, mid_file, history, step_vars>>

mq_sort ==
    /\ mq.phase = "enqueue"
    /\ mq' = [mq EXCEPT !.phase = "sorted", !.queue = sort(mq.queue)]
    /\ UNCHANGED <<conn_vars, io_vars, mid_file, history, step_vars>>

mq_dequeue(time) ==
    /\ mq.phase = "sorted"
    /\ Len(mq.calls) < MaxDequeue
    /\ LET d == dequeue(mq.queue, time)
       IN  mq' = [mq EXCEPT !.queue = d[2],
                            !.calls = Append(mq.calls,
                                             [time |-> time, events |-> d[1],
                                              rest |-> d[2]])]
    /\ UNCHANGED <<conn_vars, io_vars, mid_file, history, step_vars>>

(***************************************************************************)
(* The initial state: a project, the export settings, and a Conn and an IO *)
(* as constructed.                                                         *)
(***************************************************************************)
KeyLists == {<<>>, <<60>>}

\* A Conn without SoundFonts: no program, and the gain of the synthesizer.
Unprogrammed ==
    /\ soundfonts = <<>>
    /\ conn_state = [programs |-> [c \in CommandChannels |-> None],
                     gain |-> MaxGain]
    /\ synth = [rate |-> PlayerFramerate, lock |-> 0, fonts |-> {},
                programs |-> [c \in Channels |-> None], gain |-> MaxGain]

\* No call of start_music is under way, and the live queue is unlocked.
NotStarting ==
    [pc |-> "idle", playback |-> 0, todo |-> <<>>, queue_locked |-> FALSE]

\* The threads that lock: the foreground thread of the Conn, and the export
\* workers.  No thread holds a mutex, and none is in a call.
Foreground == 0
Threads == {Foreground} \cup Workers

NoLocks ==
    [held |-> [t \in Threads |-> <<>>], todo |-> [t \in Threads |-> <<>>],
     call |-> "default"]

\* Input::new: no event and no note, the fourth octave, and a MIDI
\* connection; no update yet.
NoUpdate ==
    [midi |-> <<>>, qwerty |-> <<>>, armed |-> FALSE,
     alphanumeric_input |-> FALSE, use_volume |-> FALSE]

Input_new ==
    [events |-> <<>>, play_now |-> <<>>, note_on_events |-> <<>>,
     new_notes |-> <<>>, qwerty_octave |-> 4, update |-> NoUpdate]

\* No EditModeDeltas yet.
NoDeltas == [made |-> FALSE]

\* No call of Exporter::mid yet.
NoMidFile == [called |-> FALSE, messages |-> None]

\* The State and the stacks of a new IO: the first panel has the focus, the
\* first track is selected, nothing is unsaved, and both stacks are empty;
\* the export settings have the first framerate, no commands were sent, and
\* the log of the inputs is empty.
NoHistory ==
    [state |-> [focus |-> 0, selected |-> 0, unsaved_changes |-> FALSE],
     undo |-> <<>>, redo |-> <<>>, framerate |-> 0, sent |-> None,
     log |-> <<>>]

\* What the Conn and the IO have besides when they are constructed, but for
\* the stacks of the IO.
Unused ==
    /\ play_state = NotPlaying
    /\ export_state = NotExporting
    /\ midi_event_queue = <<>>
    /\ workers = [w \in Workers |-> IdleWorker]
    /\ fg = Call("default", <<>>)
    /\ export_queue = <<>>
    /\ conn_export_state = None
    /\ panel = "Main"
    /\ frame = Frame("None", <<>>, None, FALSE, FALSE, FALSE)
    /\ mq = [phase |-> "enqueue", queue |-> <<>>, enqueued |-> <<>>,
             calls |-> <<>>]
    /\ mid_file = NoMidFile
    /\ starting = NotStarting
    /\ locks = NoLocks
    /\ midi_input = Input_new
    /\ deltas = NoDeltas

Started ==
    /\ Unused
    /\ history = NoHistory

\* The export settings, with the files of a multi-file export named after
\* the channels, and the Conn and the IO as constructed.
Constructed ==
    /\ exporter \in Exporters
    /\ exporter.multi_file_suffix = "Channel"
    /\ Started
    /\ Unprogrammed

Init ==
    /\ music \in Musics
    /\ Constructed

(***************************************************************************)
(* Exports: the foreground starts them, the workers run them.              *)
(***************************************************************************)
Next ==
    \/ start_export
    \/ \E w \in Workers : WorkerNext(w)
    \/ \E w \in Workers : WorkerLock(w)
    \/ \E w \in Workers : WorkerRender(w)
    \/ \E w \in Workers : WorkerDecay(w)
    \/ \E w \in Workers : WorkerEncode(w)
    \/ \E w \in Workers : WorkerRestore(w)

Spec == Init /\ [][Next]_vars

(***************************************************************************)
(* The same, with the scheduling of the threads: a worker that can step    *)
(* does, and a worker that waits for the synthesizer lock gets it (the     *)
(* mutex is eventually fair).                                              *)
(***************************************************************************)
FairSpec ==
    /\ Spec
    /\ \A w \in Workers :
         /\ WF_vars(WorkerNext(w))
         /\ SF_vars(WorkerLock(w))
         /\ WF_vars(WorkerRender(w))
         /\ WF_vars(WorkerDecay(w))
         /\ WF_vars(WorkerEncode(w))
         /\ SF_vars(WorkerRestore(w))

(***************************************************************************)
(* Playback: the notes, the music and the exports of the Conn on a project *)
(* of at most one track with a single-file export, with the player and the *)
(* export workers.                                                         *)
(***************************************************************************)
PlayInit ==
    /\ Init
    /\ Len(music) <= 1
    /\ \A i \in 1..Len(music) : ~music[i].mute /\ ~music[i].solo
    /\ exporter.export_type = "Wav"
    /\ ~exporter.multi_file

PlayNext ==
    \/ \E playback \in 0..MaxPulse : set_music(playback)
    \/ \E selected \in 0..Len(music), keys \in KeyLists : note_ons(selected, keys)
    \/ \E selected \in 0..Len(music), keys \in KeyLists : note_offs(selected, keys)
    \/ start_export
    \/ \E w \in Workers : WorkerNext(w)
    \/ \E w \in Workers : WorkerLock(w)
    \/ \E w \in Workers : WorkerRender(w)
    \/ \E w \in Workers : WorkerDecay(w)
    \/ \E w \in Workers : WorkerEncode(w)
    \/ \E w \in Workers : WorkerRestore(w)
    \/ PlayerTick
    \/ PlayerDecayed

PlaySpec == PlayInit /\ [][PlayNext]_vars

(***************************************************************************)
(* The exportables: one export at a time of a project with longer tracks.  *)
(***************************************************************************)
ExportInit ==
    /\ music \in ExportMusics
    /\ Constructed
    /\ exporter.export_type = "Wav"

ExportNext ==
    \/ (\A w \in Workers : workers[w].pc = "idle") /\ start_export
    \/ \E w \in Workers : WorkerNext(w)
    \/ \E w \in Workers : WorkerLock(w)
    \/ \E w \in Workers : WorkerRender(w)
    \/ \E w \in Workers : WorkerDecay(w)
    \/ \E w \in Workers : WorkerEncode(w)
    \/ \E w \in Workers : WorkerRestore(w)

ExportSpec == ExportInit /\ [][ExportNext]_vars

(***************************************************************************)
(* The files of an export: one export at a time, after io has sent up to   *)
(* MaxSetup commands for the channels of the synthesizer.                  *)
(***************************************************************************)
\* The commands for the channels of the synthesizer, with any indices.
SetupCommands ==
    {LoadSoundFont(c, p) : c \in Channels, p \in FirstPaths}
        \cup {SetProgram(c, p, i, j) : c \in Channels, p \in FirstPaths,
                                       i \in 0..MaxBank, j \in 0..MaxPreset}
        \cup {UnsetProgram(c) : c \in Channels}
        \cup {SetGain(g) : g \in 0..MaxGain}

SuffixInit ==
    /\ music \in Musics
    /\ Started
    /\ exporter \in Exporters
    /\ exporter.export_type = "Wav"
    /\ \E n \in 0..MaxSetup :
       \E commands \in [1..n -> SetupCommands] :
       \E keys \in HashOrders :
       \E cs \in {do_command_list(
                      ConnSynth(<<>>,
                                [programs |-> [c \in CommandChannels |-> None],
                                 gain |-> MaxGain],
                                [rate |-> PlayerFramerate, lock |-> 0,
                                 fonts |-> {},
                                 programs |-> [c \in Channels |-> None],
                                 gain |-> MaxGain]),
                      commands, keys)} :
           /\ ~cs.panicked
           /\ soundfonts = cs.soundfonts
           /\ conn_state = cs.state
           /\ synth = cs.synth

SuffixNext ==
    \/ (\A w \in Workers : workers[w].pc = "idle") /\ start_export
    \/ \E w \in Workers : WorkerNext(w)
    \/ \E w \in Workers : WorkerLock(w)
    \/ \E w \in Workers : WorkerRender(w)
    \/ \E w \in Workers : WorkerDecay(w)
    \/ \E w \in Workers : WorkerEncode(w)
    \/ \E w \in Workers : WorkerRestore(w)

SuffixSpec == SuffixInit /\ [][SuffixNext]_vars

(***************************************************************************)
(* The programs: the commands of io for any channel, one call after the    *)
(* other, and the reading of save files.                                   *)
(***************************************************************************)
ProgramInit ==
    /\ Init
    /\ music = <<>>
    /\ exporter.export_type = "Wav"
    /\ ~exporter.multi_file

\* The slices of commands of one call, for any channel.
ProgramCommandLists ==
    UNION {[1..n -> CommandsOf(CommandChannels, FirstPaths, soundfonts)] :
               n \in 0..MaxCommands}

ProgramNext ==
    \/ \E commands \in ProgramCommandLists : do_commands(commands)
    \/ \E save \in Saves : Save_read(save)

ProgramSpec == ProgramInit /\ [][ProgramNext]_vars

\* The save files, those of a changed SoundFont file too, and the commands,
\* up to a panic.
SaveNext ==
    /\ fg.call # "panic"
    /\ \/ \E commands \in ProgramCommandLists : do_commands(commands)
       \/ \E save \in Saves \cup StaleSaves : Save_read(save)
       \/ \E save \in Saves \cup StaleSaves : Save_read_panics(save)

SaveSpec == ProgramInit /\ [][SaveNext]_vars

\* The commands alone, for every SoundFont file on the disk, in a session
\* that reads no save file.
CommandNext ==
    \E n \in 0..MaxCommands :
    \E commands \in [1..n -> CommandsOf(CommandChannels, Paths, soundfonts)] :
        do_commands(commands)

CommandSpec == ProgramInit /\ [][CommandNext]_vars

(***************************************************************************)
(* The input handler: the frames of IO::update, and the Conn ending the    *)
(* export in flight.                                                       *)
(***************************************************************************)
IONext ==
    \/ \E input \in IOInputs : update(input)
    \/ export_done

\* queue_multi_file_export sets the export type to wav for the batches, and
\* nothing else in io reads it.
IOInit ==
    /\ Init
    /\ exporter.export_type = "Wav"

IOSpec == IOInit /\ [][IONext]_vars

\* The same, when the main loop keeps calling update and every export ends.
FairIOSpec ==
    /\ IOSpec
    /\ WF_vars(\E input \in IOInputs \ {"Quit"} : update(input))
    /\ WF_vars(export_done)

(***************************************************************************)
(* The queue: enqueue calls, a sort, dequeue calls.                        *)
(***************************************************************************)
QueueInit ==
    /\ Init
    /\ music = <<>>
    /\ exporter.export_type = "Wav"
    /\ ~exporter.multi_file

QueueNext ==
    \/ \E time \in 0..MaxTime, event \in QueueEvents : mq_enqueue(time, event)
    \/ mq_sort
    \/ \E time \in 0..MaxTime : mq_dequeue(time)

QueueSpec == QueueInit /\ [][QueueNext]_vars

(***************************************************************************)
(* Properties of the export.                                               *)
(***************************************************************************)

\* C1: at most one export worker thread exists at a time: a start_export
\* made while an export is running spawns no second worker.
C1_AtMostOneWorker ==
    Cardinality({w \in Workers : Alive(w)}) <= 1

\* C5 (as claimed): from the return of start_export until the worker has
\* written NotExporting at its end, Conn::exporting is true.
C5_ExportingWhileWorkerRuns ==
    \A w \in Workers : Alive(w) /\ workers[w].pc # "restore" => exporting

\* The current exportable of a worker.
Current(me) == me.exportables[me.cur]

\* The step from a to b of the state that worker w wrote last follows the
\* order of Conn::export; me and next are the worker before and after.
WriteOrder(me, next) ==
    LET a == me.last
        b == next.last
    IN  \/ a = b
        \/ next.pc = "idle"
        \/ /\ b.tag = "WritingWav"
           /\ \/ /\ a.tag \in {"none", "Done"}
                 /\ a.tag = "none" => next.cur = 1
                 /\ b.exported_samples = 0
              \/ /\ a.tag = "WritingWav"
                 /\ a.total_samples = b.total_samples
                 /\ a.exported_samples <= b.exported_samples
           /\ next.cur = me.cur
           /\ b.total_samples = Current(next).total_samples
        \/ b = AppendingDecay /\ a.tag = "WritingWav" /\ next.cur = me.cur
        \/ b = WritingToDisk /\ a = AppendingDecay /\ next.cur = me.cur
        \/ b = Done /\ a = WritingToDisk /\ next.cur = me.cur + 1
        \/ /\ b = NotExporting
           /\ next.cur = Len(next.exportables) + 1
           /\ a = (IF next.exportables = <<>> THEN NoWrite ELSE Done)

\* C4 (as claimed): the writes of a worker follow the order WritingWav (from
\* 0, non-decreasing, always below total_samples), AppendingDecay,
\* WritingToDisk, Done for each exportable in list order, then NotExporting.
C4_WriteOrderBelowTotal ==
    [][\A w \in Workers :
         /\ WriteOrder(workers[w], workers'[w])
         /\ workers'[w].last.tag = "WritingWav" =>
              workers'[w].last.exported_samples < workers'[w].last.total_samples
      ]_vars

\* C4: the writes of a worker follow the order WritingWav (from 0,
\* non-decreasing, below total_samples unless total_samples is 0),
\* AppendingDecay, WritingToDisk, Done for each exportable in list order,
\* then NotExporting.
C4_WriteOrder ==
    [][\A w \in Workers :
         /\ WriteOrder(workers[w], workers'[w])
         /\ workers'[w].last.tag = "WritingWav" =>
              \/ workers'[w].last.exported_samples < workers'[w].last.total_samples
              \/ workers'[w].last = WritingWav(0, 0)
      ]_vars

\* A worker has written Done for its first exportable and WritingWav for
\* its second one, with a sample of it exported.
C4_Witness ==
    \E w \in Workers :
        /\ workers[w].cur = 2
        /\ workers[w].last.tag = "WritingWav"
        /\ workers[w].last.exported_samples > 0

\* The events of queue q with a time of at most t, in ascending time order
\* and, for equal times, in the order of q.
RECURSIVE DueInOrder(_, _, _)
DueInOrder(q, time, t) ==
    IF time > t THEN <<>>
    ELSE [i \in 1..Len(SelectSeq(q, LAMBDA e : e.time = time)) |->
              SelectSeq(q, LAMBDA e : e.time = time)[i].event]
         \o DueInOrder(q, time + 1, t)

\* C10: within one exportable the samples 0..t-1 are rendered in increasing
\* order, each once, into position t of both buffers, and every event with a
\* time of at most t is sent, in the order of the queue, before sample t is
\* read.
C10_RenderOrder ==
    \A w \in Workers :
        LET me == workers[w] IN
        me.pc \in {"render", "decay", "encode"} =>
            LET q == Current(me).events IN
            /\ me.rendered = [i \in 1..me.t |-> i - 1]
            /\ me.t <= Current(me).total_samples
            /\ me.applied = DueInOrder(q, 0, me.t - 1)
            /\ \A i \in 1..me.t :
                 /\ me.left[i] = read_next(DueInOrder(q, 0, i - 1))
                 /\ me.right[i] = me.left[i]
            /\ \A i \in (me.t + 1)..Current(me).total_samples :
                 me.left[i] = 0 /\ me.right[i] = 0

\* A worker has rendered the samples of an exportable that has events of
\* two tracks.
C10_Witness ==
    \E w \in Workers :
        /\ workers[w].pc = "render"
        /\ workers[w].t = Current(workers[w]).total_samples
        /\ workers[w].t >= 2
        /\ Len(workers[w].applied) >= 2

C8_StopLeavesLaterEvents ==
    [][(fg.call = "start_music" /\ play_state.tag = "Playing"
          /\ fg'.call = "stop_music") =>
           /\ play_state' = Decaying
           /\ \A i \in 1..Len(music) :
                \E j \in 1..Len(fg'.sent) :
                    fg'.sent[j] = AllNotesOff(music[i].channel)
           /\ \A i \in 1..Len(midi_event_queue') :
                midi_event_queue'[i].time >= play_state.start
      ]_vars

(***************************************************************************)
(* Properties of the queue.                                                *)
(***************************************************************************)

\* The timed events of queue q with a time from time to t, in ascending time
\* order and, for equal times, in the order of q.
RECURSIVE QueuedInOrder(_, _, _)
QueuedInOrder(q, time, t) ==
    IF time > t THEN <<>>
    ELSE SelectSeq(q, LAMBDA e : e.time = time) \o QueuedInOrder(q, time + 1, t)

\* C9: after enqueue calls and a sort, dequeue(t) returns the events with a
\* time of at most t, in ascending time order and in insertion order for
\* equal times, and leaves the later ones queued in that order; a second
\* dequeue(t) returns nothing and leaves the queue as it is.
C9_DequeueReturnsDue ==
    mq.calls # <<>> =>
        /\ mq.calls[1].events = DueInOrder(mq.enqueued, 0, mq.calls[1].time)
        /\ mq.calls[1].rest =
               QueuedInOrder(mq.enqueued, mq.calls[1].time + 1, MaxTime)
        /\ (Len(mq.calls) >= 2 /\ mq.calls[2].time = mq.calls[1].time) =>
               /\ mq.calls[2].events = <<>>
               /\ mq.calls[2].rest = mq.calls[1].rest

\* Events were enqueued out of time order, two of them are due together at
\* the time of the dequeue, one is later, and the dequeue was repeated.
C9_Witness ==
    /\ Len(mq.calls) >= 2
    /\ mq.calls[2].time = mq.calls[1].time
    /\ Len(mq.calls[1].events) = 2
    /\ mq.calls[1].events[1] # mq.calls[1].events[2]
    /\ mq.calls[1].rest # <<>>
    /\ mq.enqueued[1].time > mq.calls[1].time

(***************************************************************************)
(* Properties of the input handler.                                        *)
(***************************************************************************)

\* A message to the Conn that holds an Export command.
HasExport(message) ==
    \E i \in 1..Len(message) : message[i].cmd = "Export"

\* C2 (as claimed): an export request made while an export is in flight is
\* deferred: unless the user quits, an export is started for it later, in a
\* frame without a new request.
C2_DeferredRequestStarts ==
    frame.dropped ~>
        \/ frame.done
        \/ /\ frame.input \notin ExportRequests
           /\ frame.popped = None
           /\ \E i \in 1..Len(frame.sent) : HasExport(frame.sent[i])

\* C2: an export request made while an export is in flight is dropped: the
\* frame changes nothing and sends nothing; an Export command is only sent
\* by the frame of an export request made while no export is in flight, or
\* as part of a batch taken from the export queue.
C2_RequestDropped ==
    [][frame' # frame =>
           /\ (frame'.input \in ExportRequests /\ conn_export_state # None) =>
                /\ UNCHANGED <<export_queue, conn_export_state, panel>>
                /\ frame'.sent = <<>>
           /\ \A i \in 1..Len(frame'.sent) :
                HasExport(frame'.sent[i]) =>
                    \/ /\ frame'.popped # None
                       /\ frame'.sent[i] = frame'.popped[1].commands
                    \/ /\ frame'.input = "Export"
                       /\ conn_export_state = None
      ]_vars

\* An export request was made in a frame that began with an export in
\* flight.
C2_Witness ==
    /\ frame.dropped
    /\ frame.input = "Export"
    /\ frame.popped = None
    /\ conn_export_state # None

\* The paths of the files of a multi-file export of the tracks.
TrackPaths(tracks) == [i \in 1..Len(tracks) |-> <<tracks[i].channel>>]

\* Batch b exports the track and nothing else.
IsTrackBatch(b, track) ==
    /\ b.export_state # None
    /\ b.commands[Len(b.commands)] =
           Export(<<track.channel>>, b.export_state[1])
    /\ \A i \in 1..(Len(b.commands) - 1) :
         /\ b.commands[i].cmd # "Export"
         /\ b.commands[i].cmd = "NoteOnAt" =>
              b.commands[i].args[1] = track.channel

\* Batch b is the last batch of the queue for the tracks.
IsTrailingBatch(b, tracks) ==
    /\ b.export_state = None
    /\ b.commands = <<StopMusic, AppendSilences(TrackPaths(tracks))>>

\* The export queue is empty, or holds the batches of those of the tracks
\* that are left, in track order, and then the trailing batch.
QueueShape(tracks) ==
    \/ export_queue = <<>>
    \/ LET left == Len(export_queue) - 1
           taken == Len(tracks) - left
       IN  /\ taken >= 0
           /\ \A i \in 1..left :
                IsTrackBatch(export_queue[i], tracks[taken + i])
           /\ IsTrailingBatch(export_queue[left + 1], tracks)

\* A frame takes at most the oldest batch, and only when no export is in
\* flight; it sends at most one Export command, and none while an export is
\* in flight.
QueueStep ==
    /\ export_queue' # export_queue =>
         \/ /\ frame'.input = "Export"
            /\ export_queue'[Len(export_queue')].export_state = None
         \/ /\ export_queue' = Tail(export_queue)
            /\ frame'.popped = Some(Head(export_queue))
    /\ (frame' # frame /\ frame'.popped # None) =>
         /\ conn_export_state = None
         /\ export_queue # <<>>
         /\ frame'.popped = Some(Head(export_queue))
    /\ frame' # frame =>
         /\ Cardinality({i \in 1..Len(frame'.sent) :
                            HasExport(frame'.sent[i])}) <= 1
         /\ (\E i \in 1..Len(frame'.sent) : HasExport(frame'.sent[i])) =>
              conn_export_state = None

\* The frame took the trailing batch, the last of the queue.
LastTaken == frame.popped # None /\ frame.popped[1].export_state = None

\* C6 (as claimed): the export queue holds a batch per playable track (the
\* soloed tracks if there are any, else the tracks that are not muted), in
\* track order, then one trailing batch; a frame takes at most one batch,
\* the oldest, and only when no export is in flight, so that no two exports
\* overlap; and while the main loop runs and every export ends, the queue
\* is emptied.
C6_ExportQueue ==
    /\ []QueueShape(Music_get_playable_tracks(music))
    /\ [][QueueStep]_vars
    /\ (export_queue # <<>> /\ ~frame.done)
           ~> (export_queue = <<>> \/ LastTaken \/ frame.done)

\* The same for the tracks that get_playable_tracks of io returns: the first
\* soloed track if there is one, else the tracks that are not muted.
ExportQueueOfFirstSolo ==
    /\ []QueueShape(get_playable_tracks(music))
    /\ [][QueueStep]_vars
    /\ (export_queue # <<>> /\ ~frame.done)
           ~> (export_queue = <<>> \/ LastTaken \/ frame.done)

(***************************************************************************)
(* Properties of the exportables.                                          *)
(***************************************************************************)

\* The exportables of the export that worker w runs.
ExportablesOf(w) == workers[w].exportables

\* C11: every event in the queue of an Exportable has a sample time below
\* the Exportable's total_samples, except the note-offs, whose time can be
\* total_samples; no event is later.
C11_EventsWithinTotal ==
    \A w \in Workers :
        Alive(w) =>
            \A i \in 1..Len(ExportablesOf(w)) :
                LET exportable == ExportablesOf(w)[i]
                IN  \A j \in 1..Len(exportable.events) :
                        LET e == exportable.events[j]
                        IN  \/ e.time < exportable.total_samples
                            \/ /\ e.time = exportable.total_samples
                               /\ e.event.kind = "NoteOff"

\* An export of a track with two notes: the note-off of the longer one is at
\* total_samples, the note-off of the shorter one and the note-ons are
\* earlier.
C11_Witness ==
    \E w \in Workers :
        /\ Alive(w)
        /\ \E i \in 1..Len(ExportablesOf(w)) :
               LET exportable == ExportablesOf(w)[i]
                   events == exportable.events
               IN  /\ \E j \in 1..Len(events) :
                          /\ events[j].event.kind = "NoteOff"
                          /\ events[j].time = exportable.total_samples
                   /\ \E j \in 1..Len(events) :
                          /\ events[j].event.kind = "NoteOff"
                          /\ events[j].time < exportable.total_samples
                   /\ \E j \in 1..Len(events) :
                          /\ events[j].event.kind = "NoteOn"
                          /\ events[j].time > 0

\* The latest end of the notes of the tracks, in samples at the framerate,
\* and 0 if they have no note.
LatestEnd(tracks, framerate) ==
    LET ends == UNION {{ppq_to_samples(tracks[i].notes[j].end, framerate) :
                            j \in 1..Len(tracks[i].notes)} :
                       i \in 1..Len(tracks)}
    IN  IF ends = {} THEN 0 ELSE CHOOSE x \in ends : \A y \in ends : y <= x

\* C12: the total_samples of an Exportable is the latest note end, in
\* samples at the export framerate, of the notes it contains, and 0 without
\* a note: those of its track in a multi-file export, those of all the
\* playable tracks in a single-file one; the two render buffers have that
\* length until the decay tail is appended.
C12_TotalSamples ==
    \A w \in Workers :
        Alive(w) =>
            LET me == workers[w]
                tracks == Music_get_playable_tracks(music)
                framerate == me.exporter.framerate
                total_samples == me.exportables[me.cur].total_samples
            IN  /\ IF me.exporter.multi_file
                   THEN /\ Len(me.exportables) = Len(tracks)
                        /\ \A i \in 1..Len(tracks) :
                               me.exportables[i].total_samples
                                   = LatestEnd(<<tracks[i]>>, framerate)
                   ELSE /\ Len(me.exportables) = 1
                        /\ me.exportables[1].total_samples
                               = LatestEnd(tracks, framerate)
                /\ me.pc \in {"lock", "render"} =>
                       /\ Len(me.left) = total_samples
                       /\ Len(me.right) = total_samples
                /\ me.pc \in {"decay", "encode"} =>
                       /\ Len(me.left) = total_samples + me.decay
                       /\ Len(me.right) = total_samples + me.decay

\* A single-file export of two playable tracks, the first of which ends
\* later and has a shorter note too, is rendered and about to decay.
C12_Witness ==
    \E w \in Workers :
        LET me == workers[w]
            tracks == Music_get_playable_tracks(music)
            framerate == me.exporter.framerate
        IN  /\ me.pc = "decay"
            /\ me.decay = 0
            /\ ~me.exporter.multi_file
            /\ Len(tracks) = 2
            /\ LatestEnd(<<tracks[2]>>, framerate) > 0
            /\ LatestEnd(<<tracks[1]>>, framerate)
                   > LatestEnd(<<tracks[2]>>, framerate)
            /\ Len(tracks[1].notes) = 2
            /\ tracks[1].notes[1].end > tracks[1].notes[2].end
            /\ Len(me.left) = me.exportables[1].total_samples
            /\ Len(me.left) = LatestEnd(<<tracks[1]>>, framerate)

\* The paths of the files of the exportables.
ExportPaths(exportables, export_type) ==
    [i \in 1..Len(exportables) |-> export_path(exportables[i], export_type)]

\* No two of the paths are the same.
PairwiseDistinct(paths) ==
    \A i, j \in 1..Len(paths) : i # j => paths[i] # paths[j]

\* C13: a multi-file export of N playable tracks writes N files, one per
\* playable track, and their paths {base}_{suffix}{extension} are pairwise
\* distinct whatever the suffix policy, so that no file replaces another.
C13_DistinctPaths ==
    \A w \in Workers :
        (Alive(w) /\ workers[w].exporter.multi_file) =>
            PairwiseDistinct(ExportPaths(ExportablesOf(w),
                                         workers[w].exporter.export_type))

\* What holds of the files: there is an exportable per playable track, in
\* track order and with the suffix of its track, the worker writes their
\* files in that order, and with the Channel and the ChannelAndPreset policy
\* the paths are pairwise distinct.
FilePerTrack ==
    \A w \in Workers :
        (Alive(w) /\ workers[w].exporter.multi_file) =>
            LET me == workers[w]
                tracks == Music_get_playable_tracks(music)
                paths == ExportPaths(me.exportables, me.exporter.export_type)
                policy == me.exporter.multi_file_suffix
            IN  /\ Len(me.exportables) = Len(tracks)
                /\ \A i \in 1..Len(tracks) :
                       /\ me.exportables[i].suffix # None
                       /\ policy = "Channel" =>
                              paths[i] = <<"_", tracks[i].channel>>
                       /\ policy = "Preset" => Len(paths[i]) = 2
                       /\ policy = "ChannelAndPreset" =>
                              /\ Len(paths[i]) = 3
                              /\ paths[i][2] = tracks[i].channel
                /\ me.files = SubSeq(paths, 1, Len(me.files))
                /\ Len(me.files) = me.cur - 1
                /\ me.pc = "restore" => me.files = paths
                /\ policy # "Preset" => PairwiseDistinct(paths)

\* How many times the timed event e is in the queue q.
EventCount(q, e) == Cardinality({j \in 1..Len(q) : q[j] = e})

\* How many notes of the tracks give the timed event e: a note-on at their
\* start or a note-off at their end, for their key on the channel of their
\* track.
NoteEventCount(tracks, e, framerate) ==
    Cardinality(
        {x \in (1..Len(tracks)) \X (1..MaxNotes) :
            /\ x[2] <= Len(tracks[x[1]].notes)
            /\ LET note == tracks[x[1]].notes[x[2]]
                   channel == tracks[x[1]].channel
               IN  \/ /\ e.event = NoteOn(channel, note.note, note.velocity)
                      /\ e.time = ppq_to_samples(note.start, framerate)
                   \/ /\ e.event = NoteOff(channel, note.note)
                      /\ e.time = ppq_to_samples(note.end, framerate)})

\* The timed events that a queue of an export can hold.
TimedEvents(framerate) ==
    [time : 0..ppq_to_samples(MaxEnd, framerate),
     event : {NoteOn(c, 60, MAX_VOLUME) : c \in Channels}
                 \cup {NoteOff(c, 60) : c \in Channels}]

\* The queue q holds the events of the notes of the tracks and no other.
HoldsEventsOf(q, tracks, framerate) ==
    /\ \A j \in 1..Len(q) : q[j] \in TimedEvents(framerate)
    /\ \A e \in TimedEvents(framerate) :
           EventCount(q, e) = NoteEventCount(tracks, e, framerate)

\* C14: in a multi-file export the queue of each Exportable holds the
\* note-ons and note-offs of its own track and no other event, and the
\* Exportable has a suffix; in a single-file export there is one Exportable,
\* without suffix, whose queue holds the events of all the playable tracks;
\* a track that is not playable gives no event.
C14_QueuePerExportable ==
    \A w \in Workers :
        Alive(w) =>
            LET me == workers[w]
                tracks == Music_get_playable_tracks(music)
                framerate == me.exporter.framerate
            IN  IF me.exporter.multi_file
                THEN /\ Len(me.exportables) = Len(tracks)
                     /\ \A i \in 1..Len(tracks) :
                            /\ me.exportables[i].suffix # None
                            /\ HoldsEventsOf(me.exportables[i].events,
                                             <<tracks[i]>>, framerate)
                ELSE /\ Len(me.exportables) = 1
                     /\ me.exportables[1].suffix = None
                     /\ HoldsEventsOf(me.exportables[1].events, tracks,
                                      framerate)

\* A single-file export of a project whose first track has a note and is
\* not playable, as the second track, of two notes, is soloed: the queue has
\* the four events of the second track.
C14_Witness ==
    \E w \in Workers :
        /\ Alive(w)
        /\ ~workers[w].exporter.multi_file
        /\ Len(music) = 2
        /\ music[1].notes # <<>>
        /\ ~music[1].solo
        /\ ~music[1].mute
        /\ music[2].solo
        /\ Len(music[2].notes) = 2
        /\ Len(workers[w].exportables[1].events) = 4
        /\ \A j \in 1..4 :
               workers[w].exportables[1].events[j].event.channel
                   = music[2].channel


LoadSoundFontStep(c, p) ==
    /\ fg'.call = "do_commands"
    /\ \E keys \in HashOrders :
       \E cs \in {do_command(ConnSynth(soundfonts, conn_state, synth),
                             LoadSoundFont(c, p), keys)} :
           /\ ~cs.panicked
           /\ soundfonts' = cs.soundfonts
           /\ conn_state' = cs.state
           /\ synth' = cs.synth
           /\ fg' = Call("do_commands", cs.calls)

\* Channel c has the lowest preset of the lowest bank of the catalog of p,
\* in the programs and in the synthesizer.
HasLowestProgram(fonts, state, sy, c, p) ==
    LET banks == fonts[p].banks
        program == state.programs[c]
    IN  /\ program # None
        /\ program[1].path = p
        /\ program[1].bank \in DOMAIN banks
        /\ \A b \in DOMAIN banks : program[1].bank <= b
        /\ \E i \in 1..Len(banks[program[1].bank]) :
               banks[program[1].bank][i] = program[1].preset
        /\ \A i \in 1..Len(banks[program[1].bank]) :
               program[1].preset <= banks[program[1].bank][i]
        /\ sy.programs[c] = Some([id |-> fonts[p].id,
                                   bank |-> program[1].bank,
                                   preset |-> program[1].preset])

\* C16: after LoadSoundFont for a channel of the synthesizer, of a file that
\* was loaded before or not, the channel has the lowest bank of the catalog
\* of the file and the lowest preset of that bank.
C16_DefaultIsLowest ==
    [][\A c \in Channels : \A p \in Paths :
           LoadSoundFontStep(c, p) =>
               HasLowestProgram(soundfonts', conn_state', synth', c, p)
      ]_vars

\* A file whose HashMap iterates from another bank than the lowest one has
\* been loaded, and the channel has the lowest bank, which is not the first
\* of the iteration.
C16_Witness ==
    /\ fg.call = "do_commands"
    /\ Len(fg.sent) = 2
    /\ fg.sent[1].call = "add_font"
    /\ fg.sent[2].call = "program_select"
    /\ fg.sent[2].ok
    /\ \E c \in Channels : \E p \in DOMAIN soundfonts :
         /\ fg.sent[2].channel = c
         /\ conn_state.programs[c] # None
         /\ conn_state.programs[c][1].path = p
         /\ conn_state.programs[c][1].bank_index > 0
         /\ HasLowestProgram(soundfonts, conn_state, synth, c, p)


\* The step is do_commands of SetProgram for channel c with the indices
\* bank_index and preset_index of the loaded file p.
SetProgramStep(c, p, bank_index, preset_index) ==
    /\ fg'.call = "do_commands"
    /\ p \in DOMAIN soundfonts
    /\ \E keys \in HashOrders :
       \E cs \in {do_command(ConnSynth(soundfonts, conn_state, synth),
                             SetProgram(c, p, bank_index, preset_index),
                             keys)} :
           /\ ~cs.panicked
           /\ soundfonts' = cs.soundfonts
           /\ conn_state' = cs.state
           /\ synth' = cs.synth
           /\ fg' = Call("do_commands", cs.calls)

\* C17: SetProgram gives the channel the bank at position bank_index of the
\* ascending bank numbers of the file and the preset at position
\* preset_index of the presets of that bank, and the indices of the Program
\* are these positions.
C17_SortedPositions ==
    [][\A c \in Channels : \A p \in Paths :
       \A bank_index \in 0..MaxBank : \A preset_index \in 0..MaxPreset :
           SetProgramStep(c, p, bank_index, preset_index) =>
               LET banks == SortedSeq(DOMAIN soundfonts[p].banks)
                   program == conn_state'.programs[c]
               IN  /\ program # None
                   /\ program[1].bank = banks[bank_index + 1]
                   /\ program[1].preset =
                          soundfonts[p].banks[program[1].bank][preset_index + 1]
                   /\ program[1].bank_index = bank_index
                   /\ program[1].preset_index = preset_index
      ]_vars

\* Within a session, SetProgram with the indices of the Program of a channel
\* selects the bank and the preset that the channel has.
SetProgramRoundTrip ==
    [][\A c \in Channels : \A p \in Paths :
           (/\ conn_state.programs[c] # None
            /\ conn_state.programs[c][1].path = p
            /\ SetProgramStep(c, p, conn_state.programs[c][1].bank_index,
                              conn_state.programs[c][1].preset_index))
               => conn_state'.programs[c] = conn_state.programs[c]
      ]_vars


\* The Program of every channel that has one is of a loaded SoundFont and
\* of a bank and a preset of its catalog.
ProgramsInCatalog(fonts, state) ==
    \A c \in DOMAIN state.programs :
        state.programs[c] # None =>
            LET program == state.programs[c][1] IN
            /\ program.path \in DOMAIN fonts
            /\ program.bank \in DOMAIN fonts[program.path].banks
            /\ \E i \in 1..Len(fonts[program.path].banks[program.bank]) :
                   fonts[program.path].banks[program.bank][i] = program.preset

\* C18: in every state, after commands and after the reading of a save
\* file, the Program of every channel is of a loaded SoundFont and of a bank
\* and a preset of its catalog.
C18_ProgramsInCatalog == ProgramsInCatalog(soundfonts, conn_state)

\* The commands keep the programs in the catalog.
CommandsKeepCatalog ==
    [][(fg'.call = "do_commands"
            /\ ProgramsInCatalog(soundfonts, conn_state))
           => ProgramsInCatalog(soundfonts', conn_state')]_vars


\* C19: after any commands, a channel of the synthesizer has a Program
\* exactly when the synthesizer has the SoundFont, the bank and the preset
\* of that Program selected on the channel, and the gain of the state is
\* the gain of the synthesizer.
C19_MirrorAgrees ==
    /\ \A c \in Channels :
         IF conn_state.programs[c] = None
         THEN synth.programs[c] = None
         ELSE LET program == conn_state.programs[c][1] IN
              /\ program.path \in DOMAIN soundfonts
              /\ synth.programs[c] = Some([id |-> soundfonts[program.path].id,
                                           bank |-> program.bank,
                                           preset |-> program.preset])
    /\ conn_state.gain = synth.gain

\* Every command but UnsetProgram keeps the programs and the gain of the
\* state equal to those of the synthesizer.
MirrorKeptButByUnset ==
    [][(C19_MirrorAgrees /\ ~C19_MirrorAgrees')
           => \E c \in Channels :
                  /\ conn_state.programs[c] # None
                  /\ conn_state'.programs[c] = None
                  /\ synth'.programs[c] = synth.programs[c]
                  /\ synth'.programs[c] # None]_vars


\* The synthesizer rejected a program selection among the calls.
Rejected(calls) ==
    \E i \in 1..Len(calls) :
        calls[i].call = "program_select" /\ ~calls[i].ok

\* C20: a command whose program selection the synthesizer rejects does not
\* panic and leaves the programs of every channel as they were, and a call
\* of do_commands leaves the Program of a channel for which a selection was
\* rejected as it was.
C20_RejectedSelectionSkipped ==
    /\ [](\A command \in CommandsOf(CommandChannels, Paths, soundfonts) :
          \A keys \in HashOrders :
              LET cs == do_command(ConnSynth(soundfonts, conn_state, synth),
                                   command, keys)
              IN  Rejected(cs.calls) =>
                      /\ ~cs.panicked
                      /\ cs.state.programs = conn_state.programs)
    /\ [][fg'.call = "do_commands" =>
              \A i \in 1..Len(fg'.sent) :
                  (fg'.sent[i].call = "program_select" /\ ~fg'.sent[i].ok)
                      => conn_state'.programs[fg'.sent[i].channel]
                             = conn_state.programs[fg'.sent[i].channel]]_vars

\* do_commands has had a program selection rejected for a channel that the
\* synthesizer does not have, while another channel has a Program.
C20_Witness ==
    /\ fg.call = "do_commands"
    /\ Rejected(fg.sent)
    /\ conn_state.programs[MaxTracks] = None
    /\ \E c \in Channels : conn_state.programs[c] # None


\* C21: LoadSoundFont for a channel of the synthesizer and a file that is
\* loaded adds no font and changes neither the SoundFonts nor the gain nor
\* the Program or the preset of another channel; the channel gets the lowest
\* preset of the lowest bank of the file; and the same command again leaves
\* everything as it is.
C21_RepeatedLoad ==
    [][\A c \in Channels : \A p \in Paths :
           (p \in DOMAIN soundfonts /\ LoadSoundFontStep(c, p)) =>
               /\ \A i \in 1..Len(fg'.sent) : fg'.sent[i].call # "add_font"
               /\ synth'.fonts = synth.fonts
               /\ soundfonts' = soundfonts
               /\ conn_state'.gain = conn_state.gain
               /\ synth'.gain = synth.gain
               /\ \A d \in CommandChannels \ {c} :
                      conn_state'.programs[d] = conn_state.programs[d]
               /\ \A d \in Channels \ {c} :
                      synth'.programs[d] = synth.programs[d]
               /\ HasLowestProgram(soundfonts', conn_state', synth', c, p)
               /\ \A keys \in HashOrders :
                      LET again == do_command(
                                       ConnSynth(soundfonts', conn_state',
                                                 synth'),
                                       LoadSoundFont(c, p), keys)
                      IN  /\ ~again.panicked
                          /\ again.soundfonts = soundfonts'
                          /\ again.state = conn_state'
                          /\ again.synth = synth'
      ]_vars

\* With two files loaded, a channel has got the default program of a file by
\* a single selection, without a font being added, while another channel has
\* a program of the other file.
C21_Witness ==
    /\ fg.call = "do_commands"
    /\ Len(fg.sent) = 1
    /\ fg.sent[1].call = "program_select"
    /\ fg.sent[1].ok
    /\ DOMAIN soundfonts = Paths
    /\ \E c \in Channels : \E d \in Channels \ {c} :
         /\ fg.sent[1].channel = c
         /\ conn_state.programs[c] # None
         /\ conn_state.programs[d] # None
         /\ conn_state.programs[c][1].path # conn_state.programs[d][1].path
         /\ HasLowestProgram(soundfonts, conn_state, synth, c,
                             conn_state.programs[c][1].path)


C23_FailuresAbsorbed ==
    fg.call = "panic" =>
        \/ fg.sent = <<>>
        \/ fg.sent[Len(fg.sent)].ok


\* The channels of the NoteOnAt commands of a message.
NoteOnAtChannels(message) ==
    {message[j].args[1] :
         j \in {k \in 1..Len(message) : message[k].cmd = "NoteOnAt"}}

\* The channels of those of the tracks that have notes.
ChannelsWithNotes(tracks) ==
    {tracks[j].channel : j \in {k \in 1..Len(tracks) : tracks[k].notes # <<>>}}

\* C24: the tracks that io takes for an export are the playable tracks, all
\* the soloed tracks if a track is soloed and else the tracks that are not
\* muted, as Music::get_playable_tracks gives them to the Conn: a
\* single-file export that a frame starts sends the notes of these tracks.
C24_PlayableTracks ==
    \A i \in 1..Len(frame.sent) :
        (frame.started /\ ~exporter.multi_file /\ HasExport(frame.sent[i])) =>
            NoteOnAtChannels(frame.sent[i]) =
                ChannelsWithNotes(Music_get_playable_tracks(music))

(***************************************************************************)
(* The velocities: a project of one track with one note, for every gain of *)
(* the track and every velocity of the note; the note is scheduled by the  *)
(* timeline playback, by the export of the Conn and by the export of io.   *)
(***************************************************************************)
VelocityMusics ==
    {<<[channel |-> 0, gain |-> gain,
        notes |-> <<[note |-> 60, velocity |-> velocity, start |-> 0,
                     end |-> 1]>>,
        mute |-> FALSE, solo |-> FALSE]>> :
         gain \in 0..MAX_VOLUME, velocity \in 0..MAX_VOLUME}

VelocityInit ==
    /\ music \in VelocityMusics
    /\ Constructed
    /\ exporter.export_type = "Wav"
    /\ ~exporter.multi_file

VelocityNext ==
    \/ play_state = NotPlaying /\ start_music(0)
    \/ (\A w \in Workers : workers[w].pc = "idle") /\ start_export
    \/ conn_export_state = None /\ update("Export")

VelocitySpec == VelocityInit /\ [][VelocityNext]_vars

\* The velocities that the note-ons of a key of a track may carry: for each
\* note of that key, its velocity times the gain of the track over
\* MAX_VOLUME, rounded down.
ScaledVelocities(track, key) ==
    {(track.notes[j].velocity * track.gain) \div MAX_VOLUME :
         j \in {k \in 1..Len(track.notes) : track.notes[k].note = key}}

\* The note-ons of a queue of timed events carry the scaled velocities.
QueueVelocitiesScaled(q) ==
    \A i \in 1..Len(q) :
        q[i].event.kind = "NoteOn" =>
            \E t \in 1..Len(music) :
                /\ music[t].channel = q[i].event.channel
                /\ q[i].event.vel \in ScaledVelocities(music[t], q[i].event.key)

\* The NoteOnAt commands of a message of io carry the scaled velocities.
MessageVelocitiesScaled(message) ==
    \A i \in 1..Len(message) :
        message[i].cmd = "NoteOnAt" =>
            \E t \in 1..Len(music) :
                /\ music[t].channel = message[i].args[1]
                /\ message[i].args[3] \in
                       ScaledVelocities(music[t], message[i].args[2])

\* C25: every note-on scheduled for the timeline playback (the live queue
\* after start_music), for an export of the Conn (the queues of the
\* Exportables) or for an export of io (the NoteOnAt commands) carries
\* floor(v * gain / MAX_VOLUME), for the stored velocity v of its note and
\* the gain of its track: the scaling is applied once on each path, and the
\* result is at most v and lies in 0..127.
C25_VelocityScaledOnce ==
    /\ QueueVelocitiesScaled(midi_event_queue)
    /\ \A w \in Workers : \A x \in 1..Len(workers[w].exportables) :
         QueueVelocitiesScaled(workers[w].exportables[x].events)
    /\ \A i \in 1..Len(frame.sent) : MessageVelocitiesScaled(frame.sent[i])
    /\ \A t \in 1..Len(music) : \A j \in 1..Len(music[t].notes) :
         \A vel \in ScaledVelocities(music[t], music[t].notes[j].note) :
             vel <= music[t].notes[j].velocity /\ vel \in 0..127

\* A note-on of each path is scheduled, for a gain and a velocity whose
\* product is no multiple of MAX_VOLUME.
C25_Witness ==
    /\ Len(music) = 1
    /\ music[1].gain = 100
    /\ music[1].notes[1].velocity = 90
    /\ \E i \in 1..Len(midi_event_queue) :
         midi_event_queue[i].event = NoteOn(0, 60, 70)
    /\ \E w \in Workers : \E x \in 1..Len(workers[w].exportables) :
         \E i \in 1..Len(workers[w].exportables[x].events) :
             workers[w].exportables[x].events[i].event = NoteOn(0, 60, 70)
    /\ \E i \in 1..Len(frame.sent) : \E j \in 1..Len(frame.sent[i]) :
         /\ frame.sent[i][j].cmd = "NoteOnAt"
         /\ frame.sent[i][j].args[3] = 70

(***************************************************************************)
(* The export settings panel: an edit of the live export settings.  The    *)
(* settings that the panel can give have any export type, any multi-file   *)
(* setting, and the framerate of the export or that of the player.         *)
(***************************************************************************)
ExporterEdits ==
    [export_type : ExportTypes, multi_file : BOOLEAN,
     multi_file_suffix : MultiFileSuffixes,
     framerate : {ExportFramerate, PlayerFramerate}]

ExportSettingsPanel_update(cfg) ==
    /\ exporter' = cfg
    /\ UNCHANGED <<io_vars, own_vars, soundfonts, conn_state, music, play_state,
                   export_state, synth, midi_event_queue, workers, fg>>

(***************************************************************************)
(* The export settings during an export: a project of two tracks with a    *)
(* note each, one export at a time, and the panel editing the settings at  *)
(* any time.                                                               *)
(***************************************************************************)
ConfigInit ==
    /\ Init
    /\ Len(music) = MaxTracks
    /\ \A i \in 1..Len(music) :
         music[i].notes # <<>> /\ ~music[i].mute /\ ~music[i].solo

ConfigNext ==
    \/ (\A w \in Workers : workers[w].pc = "idle") /\ start_export
    \/ \E cfg \in ExporterEdits : ExportSettingsPanel_update(cfg)
    \/ \E w \in Workers : WorkerNext(w)
    \/ \E w \in Workers : WorkerLock(w)
    \/ \E w \in Workers : WorkerRender(w)
    \/ \E w \in Workers : WorkerDecay(w)
    \/ \E w \in Workers : WorkerEncode(w)
    \/ \E w \in Workers : WorkerRestore(w)

ConfigSpec == ConfigInit /\ [][ConfigNext]_vars

\* What worker w does in a step, given the export settings cfg: the
\* exportables are kept, a file that is written has the path of the current
\* exportable with the extension of cfg, and the thread panics instead of
\* writing if and only if cfg asks for a .mid file.
StepFollows(w, cfg) ==
    /\ workers'[w].exportables = workers[w].exportables
    /\ workers'[w].files # workers[w].files =>
         workers'[w].files =
             Append(workers[w].files,
                    export_path(workers[w].exportables[workers[w].cur],
                                cfg.export_type))
    /\ (workers[w].pc = "encode" /\ workers'[w].pc # "encode") =>
         (workers'[w].pc = "panicked" <=> cfg.export_type = "Mid")

\* C26: the export worker uses the export settings as they were when the
\* export started.  The worker that start_export spawns holds the live
\* settings of that moment and the exportables built from them; until its
\* thread ends, no step changes what it holds, whatever the panel does to
\* the live settings, and the files it writes and their paths follow what
\* it holds.
C26_ConfigAsAtStart ==
    [][\A w \in Workers :
           /\ (workers[w].pc = "idle" /\ workers'[w].pc # "idle") =>
                /\ workers'[w].exporter = exporter
                /\ workers'[w].exportables =
                       Exportables(music, exporter, conn_state.programs)
           /\ (Alive(w) /\ workers'[w].pc # "idle") =>
                /\ workers'[w].exporter = workers[w].exporter
                /\ StepFollows(w, workers[w].exporter)
      ]_vars

\* A worker has written a file of a multi-file export after the panel has
\* changed the export type, the multi-file setting and the framerate.
C26_Witness ==
    \E w \in Workers :
        /\ Alive(w)
        /\ workers[w].files # <<>>
        /\ workers[w].exporter.multi_file
        /\ ~exporter.multi_file
        /\ exporter.export_type # workers[w].exporter.export_type
        /\ exporter.framerate # workers[w].exporter.framerate


\* C27: whenever an export has finished, that is in every state where a
\* worker has written NotExporting and the export state is NotExporting,
\* the sample rate of the synthesizer is the framerate of the player.
C27_RateRestored ==
    (export_state = NotExporting
         /\ \E w \in Workers : workers[w].last = NotExporting) =>
        synth.rate = PlayerFramerate


(***************************************************************************)
(* Exporter::mid: the notes of all tracks, sorted by their start, are      *)
(* walked pulse by pulse from 0 while t < t1, the latest end; at each      *)
(* pulse the note-ons of the notes that start there and then the note-offs *)
(* of the notes that end there are pushed, each with get_delta_time of the *)
(* pulses counted since the last message.  Without notes nothing is        *)
(* written.  The result is None, or Some of the messages of the file.      *)
(***************************************************************************)
PULSE == 1
PPQ_F == 192

\* MidiNote::new for every note of every track, in the order of the tracks.
RECURSIVE MidiNotes(_)
MidiNotes(tracks) ==
    IF tracks = <<>> THEN <<>>
    ELSE [i \in 1..Len(Head(tracks).notes) |->
              [note |-> Head(tracks).notes[i],
               channel |-> Head(tracks).channel]]
         \o MidiNotes(Tail(tracks))

\* notes.sort_by(|a, b| a.note.start.cmp(&b.note.start)): a stable sort.
RECURSIVE sort_by_start(_)
sort_by_start(notes) ==
    IF notes = <<>> THEN <<>>
    ELSE LET first == Head(notes)
             rest == sort_by_start(Tail(notes))
         IN  SelectSeq(rest, LAMBDA n : n.note.start < first.note.start)
             \o <<first>>
             \o SelectSeq(rest, LAMBDA n : n.note.start >= first.note.start)

MetaEvent(event) == [kind |-> "MetaEvent", delta_time |-> 0, event |-> event]

MidiMessage(delta_time, event, note) ==
    [kind |-> "MidiEvent", delta_time |-> delta_time, event |-> event,
     ch |-> note.channel, note |-> note.note.note,
     velocity |-> note.note.velocity]

\* Exporter::get_delta_time: (*ppq as f32 / PPQ_F) as u32, which is the
\* whole part of the quotient for these pulses; the caller's count is reset.
get_delta_time(ppq) == ppq \div PPQ_F

\* The messages pushed for these notes, one after the other: the first has
\* the delta-time of dt, and the others that of a count that was reset.
pulse_messages(event, notes, dt) ==
    [i \in 1..Len(notes) |->
         MidiMessage(get_delta_time(IF i = 1 THEN dt ELSE 0), event,
                     notes[i])]

\* The pulse after t at which the loop has something to do again: the next
\* start or end of a note, or t1.
next_pulse(notes, t, t1) ==
    LET pulses == {u \in UNION {{notes[i].note.start, notes[i].note.end} :
                                    i \in 1..Len(notes)} : t < u /\ u < t1}
                      \cup {t1}
    IN  CHOOSE u \in pulses : \A v \in pulses : u <= v

\* The loop "while t < t1" from pulse t on, with the count dt.  The pulses
\* without a start or an end only add PULSE to t and to dt: they are taken
\* in one step.
RECURSIVE mid_walk(_, _, _, _)
mid_walk(notes, t, t1, dt) ==
    IF ~(t < t1) THEN <<>>
    ELSE LET ons == SelectSeq(notes, LAMBDA n : n.note.start = t)
             dt_on == IF ons = <<>> THEN dt ELSE 0
             offs == SelectSeq(notes, LAMBDA n : n.note.end = t)
             dt_off == IF offs = <<>> THEN dt_on ELSE 0
             next == next_pulse(notes, t, t1)
         IN  pulse_messages("NoteOn", ons, dt)
             \o pulse_messages("NoteOff", offs, dt_on)
             \o mid_walk(notes, next, t1, dt_off + (next - t) * PULSE)

\* The latest end of the notes.
latest_end(notes) ==
    CHOOSE t1 \in {notes[i].note.end : i \in 1..Len(notes)} :
        \A i \in 1..Len(notes) : notes[i].note.end <= t1

\* Exporter::mid, with the copyright setting of the exporter and the preset
\* names of synth_state.programs in the order of its HashMap.
mid(tracks, copyright, preset_names) ==
    LET notes == MidiNotes(tracks) IN
    IF notes = <<>> THEN None
    ELSE Some(<<MetaEvent("TextEvent")>>
              \o (IF copyright THEN <<MetaEvent("CopyrightNotice")>>
                  ELSE <<>>)
              \o [i \in 1..Len(preset_names) |-> MetaEvent("InstrumentName")]
              \o <<MetaEvent("SetTempo")>>
              \o mid_walk(sort_by_start(notes), 0,
                          latest_end(sort_by_start(notes)), 0)
              \o <<MetaEvent("EndOfTrack")>>)

\* The preset names of the programs of the channels, in any order.
PresetNames(state) ==
    LET channels == {c \in DOMAIN state.programs : state.programs[c] # None}
    IN  {[i \in 1..Len(order) |-> state.programs[order[i]][1].preset_name] :
             order \in KeyOrders(channels)}

Exporter_mid(copyright) ==
    /\ ~mid_file.called
    /\ \E preset_names \in PresetNames(conn_state) :
         mid_file' = [called |-> TRUE,
                      messages |-> mid(music, copyright, preset_names)]
    /\ UNCHANGED <<conn_vars, io_vars, mq, history, step_vars>>

(***************************************************************************)
(* The .mid files: projects of up to two tracks with up to a note each,    *)
(* with starts and ends at the first pulses of the first two beats.        *)
(***************************************************************************)
MidPulses == {0, 1, PPQ_F, PPQ_F + 1}

MidNotes ==
    {n \in [note : {60}, velocity : {MAX_VOLUME}, start : MidPulses,
            end : MidPulses] : n.start < n.end}

RECURSIVE MidMusicsOf(_)
MidMusicsOf(k) ==
    IF k = 0 THEN {<<>>}
    ELSE {Append(m, t) :
              m \in MidMusicsOf(k - 1),
              t \in [channel : {k - 1}, gain : {MAX_VOLUME},
                     notes : {<<>>} \cup {<<n>> : n \in MidNotes},
                     mute : {FALSE}, solo : {FALSE}]}

MidInit ==
    /\ music \in UNION {MidMusicsOf(k) : k \in 0..MaxTracks}
    /\ Constructed

MidNext == \E copyright \in BOOLEAN : Exporter_mid(copyright)

MidSpec == MidInit /\ [][MidNext]_vars

\* The note-ons and note-offs of the messages, in their order.
MidiEventsOf(messages) == SelectSeq(messages, LAMBDA m : m.kind = "MidiEvent")

\* The start and the end of every note, as <<pulse, 0 for a start and 1 for
\* an end, index of the note>>, and their order in the file: by pulse, the
\* starts of a pulse before its ends, the notes in their sorted order.
NoteEvents(notes) ==
    UNION {{<<notes[i].note.start, 0, i>>, <<notes[i].note.end, 1, i>>} :
               i \in 1..Len(notes)}

EventBefore(a, b) ==
    \/ a[1] < b[1]
    \/ a[1] = b[1] /\ a[2] < b[2]
    \/ a[1] = b[1] /\ a[2] = b[2] /\ a[3] < b[3]

\* The event of each place of the file: the k-th is the one with k - 1
\* events before it.
EventAt(notes, k) ==
    CHOOSE e \in NoteEvents(notes) :
        Cardinality({d \in NoteEvents(notes) : EventBefore(d, e)}) = k - 1

\* The messages that the claim describes: a note-on at the start and a
\* note-off at the end of every note, each with the delta-time of the
\* pulses since the message before it (since pulse 0 for the first).
EveryNoteOnAndOff(notes) ==
    [k \in 1..(2 * Len(notes)) |->
         LET e == EventAt(notes, k)
             since == IF k = 1 THEN 0 ELSE EventAt(notes, k - 1)[1]
         IN  MidiMessage(get_delta_time(e[1] - since),
                         IF e[2] = 0 THEN "NoteOn" ELSE "NoteOff",
                         notes[e[3]])]

\* C28: Exporter::mid writes, for the notes of all tracks sorted by start,
\* one note-on at the start pulse and one note-off at the end pulse of every
\* note, the note that ends last included, in the order of the pulses, each
\* with the delta-time counted since the message before it; without notes
\* nothing is written.
C28_MidEvents ==
    mid_file.called =>
        IF \A i \in 1..Len(music) : music[i].notes = <<>>
        THEN mid_file.messages = None
        ELSE /\ mid_file.messages # None
             /\ MidiEventsOf(mid_file.messages[1]) =
                    EveryNoteOnAndOff(sort_by_start(MidiNotes(music)))


(***************************************************************************)
(* Undo and redo: the branches of IO::update that push to and pop from     *)
(* IO.undo and IO.redo.  history.state is the State (the focused panel,    *)
(* the selected track, unsaved_changes), history.framerate the index of    *)
(* the framerate of the export settings, history.sent the commands of the  *)
(* frame sent to the Conn, and history.log the inputs so far, each with    *)
(* the State and the stacks that it found.                                 *)
(***************************************************************************)
MAX_UNDOS == 100
NumPanels == 3
NumFramerates == 3

\* Snapshot::from_states, Snapshot::from_commands and Snapshot::from_snapshot,
\* the snapshot that goes the other way.
from_states(s0, s1) ==
    [from_state |-> Some(s0), to_state |-> Some(s1),
     from_commands |-> None, to_commands |-> None]

from_commands(c0, c1) ==
    [from_state |-> None, to_state |-> None,
     from_commands |-> Some(c0), to_commands |-> Some(c1)]

from_snapshot(snapshot) ==
    [from_state |-> snapshot.to_state, to_state |-> snapshot.from_state,
     from_commands |-> snapshot.to_commands,
     to_commands |-> snapshot.from_commands]

\* Index::increment: one up or one down, around the ends.
increment(index, length, up) ==
    IF up THEN (index + 1) % length ELSE (index + length - 1) % length

\* IO::push_undo: push, clear the redo stack, and drop the oldest snapshot
\* beyond MAX_UNDOS.
push_undo(h, snapshot) ==
    [h EXCEPT !.undo = IF Len(h.undo) + 1 > MAX_UNDOS
                       THEN Tail(Append(h.undo, snapshot))
                       ELSE Append(h.undo, snapshot),
              !.redo = <<>>]

\* IO::apply_snapshot for a snapshot of a panel: a snapshot with a state or
\* with commands sets unsaved_changes and is pushed.
apply_snapshot(h, snapshot) ==
    IF snapshot.from_state # None \/ snapshot.from_commands # None
    THEN push_undo([h EXCEPT !.state.unsaved_changes = TRUE], snapshot)
    ELSE h

\* The frame of an input: the log gets the input with what it found, and
\* the history becomes h.
Logged(input, h) ==
    history' = [h EXCEPT !.log = Append(history.log,
                                        [input |-> input,
                                         state |-> history.state,
                                         undo |-> history.undo,
                                         redo |-> history.redo])]

Unsent(h) == [h EXCEPT !.sent = None]

\* The bound of the model on the stacks: at most MaxHistory snapshots more
\* than the stacks had before the first input of the log.
HistoryRoom ==
    Len(history.undo) + Len(history.redo)
        < MaxHistory
              + (IF history.log = <<>>
                 THEN Len(history.undo) + Len(history.redo)
                 ELSE Len(history.log[1].undo) + Len(history.log[1].redo))

\* InputEvent::Undo.
io_undo ==
    /\ Logged("Undo",
           IF history.undo = <<>> THEN Unsent(history)
           ELSE LET undo == history.undo[Len(history.undo)]
                    redo == from_snapshot(undo)
                IN  [history EXCEPT
                         !.undo = SubSeq(history.undo, 1,
                                         Len(history.undo) - 1),
                         !.state = [(IF undo.from_state # None
                                     THEN undo.from_state[1]
                                     ELSE history.state)
                                        EXCEPT !.unsaved_changes = TRUE],
                         !.sent = undo.from_commands,
                         !.redo = Append(history.redo, redo)])
    /\ UNCHANGED <<conn_vars, io_vars, mq, mid_file, step_vars>>

\* InputEvent::Redo.
io_redo ==
    /\ Logged("Redo",
           IF history.redo = <<>> THEN Unsent(history)
           ELSE LET redo == history.redo[Len(history.redo)]
                    undo == from_snapshot(redo)
                IN  [history EXCEPT
                         !.redo = SubSeq(history.redo, 1,
                                         Len(history.redo) - 1),
                         !.state = [(IF redo.from_state # None
                                     THEN redo.from_state[1]
                                     ELSE history.state)
                                        EXCEPT !.unsaved_changes = TRUE],
                         !.sent = redo.from_commands,
                         !.undo = Append(history.undo, undo)])
    /\ UNCHANGED <<conn_vars, io_vars, mq, mid_file, step_vars>>

\* InputEvent::NextPanel and InputEvent::PreviousPanel: the snapshot is
\* pushed to the undo stack as it is.
io_cycle_panels(up) ==
    /\ HistoryRoom
    /\ LET s0 == history.state
           s1 == [s0 EXCEPT !.focus = increment(s0.focus, NumPanels, up),
                            !.unsaved_changes = TRUE]
       IN  Logged(IF up THEN "NextPanel" ELSE "PreviousPanel",
                  [Unsent(history) EXCEPT
                       !.state = s1,
                       !.undo = Append(history.undo, from_states(s0, s1))])
    /\ UNCHANGED <<conn_vars, io_vars, mq, mid_file, step_vars>>

\* InputEvent::NextTrack and InputEvent::PreviousTrack in a panel that
\* selects tracks (select_track), and the snapshot applied.
io_select_track(up) ==
    /\ HistoryRoom
    /\ LET s0 == history.state
           selected == s0.selected
           snapshot ==
               IF up /\ selected < Len(music) - 1
               THEN Some(from_states(s0, [s0 EXCEPT !.selected = selected + 1]))
               ELSE IF ~up /\ selected > 0
               THEN Some(from_states(s0, [s0 EXCEPT !.selected = selected - 1]))
               ELSE None
       IN  Logged(IF up THEN "NextTrack" ELSE "PreviousTrack",
                  IF snapshot = None THEN Unsent(history)
                  ELSE apply_snapshot(
                           [Unsent(history) EXCEPT
                                !.state = snapshot[1].to_state[1]],
                           snapshot[1]))
    /\ UNCHANGED <<conn_vars, io_vars, mq, mid_file, step_vars>>

\* The export settings panel setting the framerate: the command with the new
\* settings is sent, and the snapshot of the two commands is applied.
io_set_framerate(up) ==
    /\ HistoryRoom
    /\ LET c0 == <<[cmd |-> "SetExporter", args |-> <<history.framerate>>]>>
           index == increment(history.framerate, NumFramerates, up)
           c1 == <<[cmd |-> "SetExporter", args |-> <<index>>]>>
       IN  Logged("SetFramerate",
                  apply_snapshot([history EXCEPT !.framerate = index,
                                                 !.sent = Some(c1)],
                                 from_commands(c0, c1)))
    /\ UNCHANGED <<conn_vars, io_vars, mq, mid_file, step_vars>>

\* InputEvent::SaveFile with a save path: the file is written and nothing
\* is unsaved.
io_save ==
    /\ Logged("SaveFile",
              [Unsent(history) EXCEPT !.state.unsaved_changes = FALSE])
    /\ UNCHANGED <<conn_vars, io_vars, mq, mid_file, step_vars>>

(***************************************************************************)
(* The inputs that push and pop, in any order, for a project of MaxTracks  *)
(* tracks; at most MaxInputs inputs, and MaxHistory snapshots in all.      *)
(***************************************************************************)
UndoInit ==
    /\ Init
    /\ Len(music) = MaxTracks
    /\ \A i \in 1..Len(music) :
         music[i].notes = <<>> /\ ~music[i].mute /\ ~music[i].solo
    /\ exporter.export_type = "Wav"
    /\ ~exporter.multi_file

UndoNext ==
    /\ Len(history.log) < MaxInputs
    /\ \/ io_undo
       \/ io_redo
       \/ \E up \in BOOLEAN : io_cycle_panels(up)
       \/ \E up \in BOOLEAN : io_select_track(up)
       \/ \E up \in BOOLEAN : io_set_framerate(up)
       \/ io_save

UndoSpec == UndoInit /\ [][UndoNext]_vars

\* Two States are the same but for unsaved_changes, which every input that
\* changes the State sets.
SameState(s, t) ==
    [s EXCEPT !.unsaved_changes = TRUE] = [t EXCEPT !.unsaved_changes = TRUE]

\* The input before the last and the last input were a and b, and a had
\* something to pop.
LastTwo(a, b) ==
    /\ Len(history.log) >= 2
    /\ history.log[Len(history.log) - 1].input = a
    /\ history.log[Len(history.log)].input = b
    /\ IF a = "Undo" THEN history.log[Len(history.log) - 1].undo # <<>>
       ELSE history.log[Len(history.log) - 1].redo # <<>>

\* The last input found nothing on the stack it pops.
LastOnEmpty(a) ==
    /\ history.log # <<>>
    /\ history.log[Len(history.log)].input = a
    /\ IF a = "Undo" THEN history.log[Len(history.log)].undo = <<>>
       ELSE history.log[Len(history.log)].redo = <<>>

\* The State and the stacks are those that the input before the last found.
RestoredFromTwo ==
    LET found == history.log[Len(history.log) - 1] IN
    /\ SameState(history.state, found.state)
    /\ history.undo = found.undo
    /\ history.redo = found.redo

\* The last input was a and popped the top of its stack: the State is the
\* one recorded in that snapshot, and the other stack has got the snapshot
\* that goes the other way.
Popped(a) ==
    LET found == history.log[Len(history.log)]
        from == IF a = "Undo" THEN found.undo ELSE found.redo
        to == IF a = "Undo" THEN found.redo ELSE found.undo
        top == from[Len(from)]
    IN  /\ SameState(history.state,
                     IF top.from_state # None THEN top.from_state[1]
                     ELSE found.state)
        /\ (IF a = "Undo" THEN history.undo ELSE history.redo) =
               SubSeq(from, 1, Len(from) - 1)
        /\ (IF a = "Undo" THEN history.redo ELSE history.undo) =
               Append(to, from_snapshot(top))

\* C29: Undo reverts the State to the one recorded in the top snapshot of
\* the undo stack, pops it and pushes the snapshot that goes the other way
\* onto the redo stack, and Redo does the converse; Undo followed by Redo,
\* and Redo followed by Undo, restore the State and both stacks; Undo on an
\* empty undo stack changes nothing.  The State is compared but for
\* unsaved_changes.
C29_UndoRedo ==
    /\ \A a \in {"Undo", "Redo"} :
         (history.log # <<>> /\ history.log[Len(history.log)].input = a
              /\ ~LastOnEmpty(a)) => Popped(a)
    /\ LastTwo("Undo", "Redo") => RestoredFromTwo
    /\ LastTwo("Redo", "Undo") => RestoredFromTwo
    /\ LastOnEmpty("Undo") =>
         LET found == history.log[Len(history.log)] IN
         /\ history.state = found.state
         /\ history.undo = found.undo
         /\ history.redo = found.redo


\* C30: a stop_music sends all-notes-off and all-sound-off to the channel
\* of every track, whatever the synthesizer answers to the sends before,
\* and ends with the play state Decaying.
C30_StopSendsBoth ==
    [][(fg' # fg /\ fg'.call = "stop_music") =>
           /\ \A i \in 1..Len(music) :
                /\ \E j \in 1..Len(fg'.sent) :
                       fg'.sent[j] = AllNotesOff(music[i].channel)
                /\ \E j \in 1..Len(fg'.sent) :
                       fg'.sent[j] = AllSoundOff(music[i].channel)
           /\ play_state' = Decaying
      ]_vars


\* C31: during an export a worker holds the synthesizer lock only for
\* single operations: between two samples of the render loop or of the
\* decay loop, and while it encodes the file, worker w does not hold it.
C31_LockFreeBetweenSamples ==
    \A w \in Workers :
        (\/ workers[w].pc = "render" /\ workers[w].t > 0
         \/ workers[w].pc = "decay"
         \/ workers[w].pc = "encode") => synth.lock # w


\* C33 (as claimed): the live queue belongs to one playback session.  At the
\* step in which a play request sets the play state to Playing, the live
\* queue holds exactly the events that this request has scheduled, sorted:
\* nothing of an earlier, stopped session is left in it.
C33_QueueOfOneSession ==
    [][(play_state.tag = "NotPlaying" /\ play_state'.tag = "Playing") =>
           \E playback \in 0..MaxPulse :
               /\ play_state' = Playing(ppq_to_samples(playback, PlayerFramerate))
               /\ midi_event_queue' = start_music_queue(<<>>, music, playback)
      ]_vars


\* C34 (as claimed): when the render loop of an Exportable has ended and the
\* decay begins, the event queue of the Exportable is empty: every note-on
\* and note-off has been sent to the synthesizer, the note-off of the note
\* that ends last (at total_samples) included.
C34_QueueEmptyAtDecay ==
    \A w \in Workers : workers[w].pc = "decay" => workers[w].events = <<>>


\* C35 (as claimed): while an export is in flight the sample rate of the
\* synthesizer stays the export framerate: from start_export to the last
\* sample of the last Exportable, no call of the Conn changes it.
C35_RateDuringExport ==
    \A w \in Workers :
        (\/ workers[w].pc \in {"lock", "render"}
         \/ workers[w].pc = "next"
              /\ workers[w].cur <= Len(workers[w].exportables))
            => synth.rate = workers[w].exporter.framerate


(***************************************************************************)
(* IO::update for the inputs that push and pop: the head of update (the    *)
(* batch of the export queue, the return while an export is in flight),    *)
(* then the branch of the input.  The branches are those of the frames     *)
(* that find no batch to take.                                             *)
(***************************************************************************)
HistoryInputs ==
    {"Undo", "Redo", "NextPanel", "PreviousPanel", "NextTrack",
     "PreviousTrack", "SetFramerate", "SaveFile"}

\* The branch of an input.
io_branch(input) ==
    CASE input = "Undo" -> io_undo
      [] input = "Redo" -> io_redo
      [] input = "NextPanel" -> io_cycle_panels(TRUE)
      [] input = "PreviousPanel" -> io_cycle_panels(FALSE)
      [] input = "NextTrack" -> io_select_track(TRUE)
      [] input = "PreviousTrack" -> io_select_track(FALSE)
      [] input = "SetFramerate" -> \E up \in BOOLEAN : io_set_framerate(up)
      [] input = "SaveFile" -> io_save

\* An update that goes on to the branch of the input whatever the export
\* state is.
io_update_through(input) ==
    /\ ~frame.done
    /\ ~drain_ready(conn_export_state, export_queue)
    /\ io_branch(input)

io_update(input) ==
    /\ ~frame.done
    /\ IF exporting_return(Drained.conn_export_state)
       THEN /\ export_queue' = Drained.export_queue
            /\ conn_export_state' = Drained.conn_export_state
            /\ panel' = Drained.panel
            /\ frame' = Frame(input, Drained.sent,
                              IF drain_ready(conn_export_state, export_queue)
                              THEN Some(Head(export_queue)) ELSE None,
                              FALSE, FALSE, FALSE)
            /\ UNCHANGED <<conn_vars, own_vars>>
       ELSE /\ ~drain_ready(conn_export_state, export_queue)
            /\ io_branch(input)

(***************************************************************************)
(* The frames of IO::update with every input, at most MaxFrames of them    *)
(* with an input that pushes or pops, for a project of MaxTracks tracks    *)
(* with an export of either kind, and the Conn ending the export in flight. *)
(***************************************************************************)
MaxFrames == 3

FrameInit ==
    /\ IOInit
    /\ Len(music) = MaxTracks
    /\ \A i \in 1..Len(music) :
         music[i].notes = <<>> /\ ~music[i].mute /\ ~music[i].solo

FrameNext ==
    \/ \E input \in IOInputs : update(input)
    \/ export_done
    \/ /\ Len(history.log) < MaxFrames
       /\ \E input \in HistoryInputs : io_update(input)

FrameSpec == FrameInit /\ [][FrameNext]_vars

\* C37: while an export is in flight (conn.export_state is set), a frame of
\* IO::update does nothing: the State, the undo stack and the redo stack,
\* the export queue and the panel are as they were, no batch is taken from
\* the export queue and no command is sent to the Conn; the frame returns
\* true for Quit and false for every other input.  The export state changes
\* only when the Conn ends the export.
C37_NothingWhileExporting ==
    [][conn_export_state # None =>
           /\ history' = history
           /\ export_queue' = export_queue
           /\ panel' = panel
           /\ conn_export_state' # conn_export_state =>
                conn_export_state' = None /\ frame' = frame
           /\ frame' # frame =>
                /\ frame'.sent = <<>>
                /\ frame'.popped = None
                /\ ~frame'.started
                /\ frame'.done <=> frame'.input = "Quit"
      ]_vars

\* A frame with the input Undo has returned during an export, with a
\* snapshot on the undo stack.
C37_Witness ==
    /\ conn_export_state # None
    /\ frame.input = "Undo"
    /\ ~frame.done
    /\ history.undo # <<>>


(***************************************************************************)
(* A long session: the State and the stacks after n inputs that select the *)
(* next and the previous track in turn, each of which pushes a snapshot    *)
(* through push_undo.  The log starts after them.                          *)
(***************************************************************************)
\* The State after j of these inputs.
TrackSelected(j) ==
    [focus |-> 0, selected |-> j % 2, unsaved_changes |-> j >= 1]

LongHistory(n) ==
    [state |-> TrackSelected(n),
     undo |-> [k \in 1..n |->
                  from_states(TrackSelected(k - 1),
                              [TrackSelected(k - 1) EXCEPT
                                   !.selected = k % 2])],
     redo |-> <<>>, framerate |-> 0, sent |-> None, log |-> <<>>]

LongUndoInit ==
    /\ music \in Musics
    /\ Len(music) = MaxTracks
    /\ \A i \in 1..Len(music) :
         music[i].notes = <<>> /\ ~music[i].mute /\ ~music[i].solo
    /\ exporter \in Exporters
    /\ exporter.multi_file_suffix = "Channel"
    /\ exporter.export_type = "Wav"
    /\ ~exporter.multi_file
    /\ Unprogrammed
    /\ Unused
    /\ history = LongHistory(MAX_UNDOS - 1)

LongUndoSpec == LongUndoInit /\ [][UndoNext]_vars

\* An input other than Undo and Redo has recorded a snapshot in this step.
Recorded ==
    /\ history'.log # history.log
    /\ history'.log[Len(history'.log)].input \notin {"Undo", "Redo"}
    /\ history'.undo # history.undo

\* C36 (as claimed): the undo stack holds at most MAX_UNDOS snapshots,
\* whichever input pushed the latest one (a snapshot of a panel, NextPanel,
\* PreviousPanel or Redo); a push to a full stack drops the oldest snapshot,
\* and every newly recorded undoable action empties the redo stack.
C36_UndoBounded ==
    [][/\ Len(history'.undo) <= MAX_UNDOS
       /\ (Recorded /\ Len(history.undo) = MAX_UNDOS) =>
            SubSeq(history'.undo, 1, MAX_UNDOS - 1) = Tail(history.undo)
       /\ Recorded => history'.redo = <<>>
      ]_vars


(***************************************************************************)
(* Conn::start_music statement by statement, with the player running       *)
(* between the statements: the sample rate is set under the synthesizer    *)
(* lock; the live queue is locked, the note-on and the note-off of every   *)
(* playback note are enqueued, the queue is sorted and unlocked; then the  *)
(* play state is set to Playing.                                           *)
(***************************************************************************)
but_starting == <<mq, mid_file, history, locks, midi_input, deltas>>

\* The enqueue calls of a play request, in the order of the calls.
SessionEvents(playback) ==
    EnqueuePlayback(<<>>, Music_get_playable_tracks(music), playback)

\* Conn::set_music: the play state is read; start_music begins if nothing
\* is playing, else stop_music is called.
set_music_begin(playback) ==
    /\ starting.pc = "idle"
    /\ IF play_state.tag = "NotPlaying"
       THEN /\ starting' = [starting EXCEPT !.pc = "rate",
                                            !.playback = playback]
            /\ UNCHANGED <<conn_vars, io_vars, but_starting>>
       ELSE stop_music

\* A start_music that sets the play state before it fills the queue.
start_music_rate_plays ==
    /\ starting.pc = "rate"
    /\ SynthFree
    /\ synth' = [synth EXCEPT !.rate = PlayerFramerate]
    /\ play_state' = Playing(ppq_to_samples(starting.playback,
                                            PlayerFramerate))
    /\ starting' = [starting EXCEPT !.pc = "lock"]
    /\ UNCHANGED <<io_vars, but_starting, soundfonts, conn_state, music,
                   exporter, export_state, midi_event_queue, workers, fg>>

\* let mut synth = self.synth.lock(); synth.set_sample_rate(self.framerate);
\* drop(synth);
start_music_rate ==
    /\ starting.pc = "rate"
    /\ SynthFree
    /\ synth' = [synth EXCEPT !.rate = PlayerFramerate]
    /\ starting' = [starting EXCEPT !.pc = "lock"]
    /\ UNCHANGED <<io_vars, but_starting, soundfonts, conn_state, music,
                   exporter, play_state, export_state, midi_event_queue,
                   workers, fg>>

\* let mut midi_event_queue = self.midi_event_queue.lock();
start_music_lock ==
    /\ starting.pc = "lock"
    /\ ~starting.queue_locked
    /\ Len(midi_event_queue) + Len(SessionEvents(starting.playback))
           <= MaxQueue
    /\ starting' = [starting EXCEPT !.pc = "enqueue", !.queue_locked = TRUE,
                                    !.todo = SessionEvents(starting.playback)]
    /\ UNCHANGED <<conn_vars, io_vars, but_starting>>

\* midi_event_queue.enqueue(..): one call.
start_music_enqueue ==
    /\ starting.pc = "enqueue"
    /\ starting.todo # <<>>
    /\ midi_event_queue' = enqueue(midi_event_queue, Head(starting.todo).time,
                                   Head(starting.todo).event)
    /\ starting' = [starting EXCEPT !.todo = Tail(starting.todo)]
    /\ UNCHANGED <<io_vars, but_starting, soundfonts, conn_state, music,
                   exporter, play_state, export_state, synth, workers, fg>>

\* midi_event_queue.sort();
start_music_sort ==
    /\ starting.pc = "enqueue"
    /\ starting.todo = <<>>
    /\ midi_event_queue' = sort(midi_event_queue)
    /\ starting' = [starting EXCEPT !.pc = "unlock"]
    /\ UNCHANGED <<io_vars, but_starting, soundfonts, conn_state, music,
                   exporter, play_state, export_state, synth, workers, fg>>

\* drop(midi_event_queue);
start_music_unlock ==
    /\ starting.pc = "unlock"
    /\ starting' = [starting EXCEPT !.pc = "play", !.queue_locked = FALSE]
    /\ UNCHANGED <<conn_vars, io_vars, but_starting>>

\* let mut play_state = self.play_state.lock();
\* *play_state = PlayState::Playing(start);
start_music_play ==
    /\ starting.pc = "play"
    /\ play_state' = Playing(ppq_to_samples(starting.playback,
                                            PlayerFramerate))
    /\ fg' = Call("start_music", <<>>)
    /\ starting' = [starting EXCEPT !.pc = "idle"]
    /\ UNCHANGED <<io_vars, but_starting, soundfonts, conn_state, music,
                   exporter, export_state, synth, midi_event_queue, workers>>

(***************************************************************************)
(* Playback with the statements of start_music: a project of at most one   *)
(* track, the play and stop requests and the notes of the foreground       *)
(* thread, one call at a time, and the player at any time.                 *)
(***************************************************************************)
StartNext ==
    \/ \E playback \in 0..MaxPulse : set_music_begin(playback)
    \/ start_music_rate
    \/ start_music_lock
    \/ start_music_enqueue
    \/ start_music_sort
    \/ start_music_unlock
    \/ start_music_play
    \/ /\ starting.pc = "idle"
       /\ \E selected \in 0..Len(music), keys \in KeyLists :
              note_ons(selected, keys)
    \/ PlayerTick
    \/ PlayerDecayed

StartSpec == PlayInit /\ [][StartNext]_vars

\* The events of a queue are in the order of their times.
TimeOrdered(q) == \A i \in 1..Len(q) - 1 : q[i].time <= q[i + 1].time

\* C32: a play request enqueues all its note events and sorts the live
\* queue under one hold of the queue lock, and sets the play state to
\* Playing only after it has released the sorted queue.  The lock is held
\* from the first enqueue to the end of the sort; whenever the state is
\* Playing no call of start_music is under way; when Playing is set the
\* queue is unlocked, sorted and holds every event of the request; and the
\* player dequeues only from an unlocked, sorted queue.
C32_QueuedBeforePlaying ==
    [][/\ starting'.pc \in {"enqueue", "unlock"} => starting'.queue_locked
       /\ play_state'.tag = "Playing" =>
            starting'.pc = "idle" /\ ~starting'.queue_locked
       /\ (play_state.tag # "Playing" /\ play_state'.tag = "Playing") =>
            /\ starting.pc = "play"
            /\ ~starting.queue_locked
            /\ midi_event_queue' = midi_event_queue
            /\ TimeOrdered(midi_event_queue)
            /\ \A k \in 1..Len(SessionEvents(starting.playback)) :
                   \E i \in 1..Len(midi_event_queue) :
                       midi_event_queue[i] =
                           SessionEvents(starting.playback)[k]
       /\ (starting' = starting /\ midi_event_queue' # midi_event_queue) =>
            /\ play_state.tag = "Playing"
            /\ TimeOrdered(midi_event_queue)
      ]_vars

\* The player has dequeued the note-on of a session that start_music has
\* queued, and the note-off is still queued.
C32_Witness ==
    /\ fg.call = "start_music"
    /\ play_state.tag = "Playing"
    /\ play_state.start > 0
    /\ starting.pc = "idle"
    /\ Len(midi_event_queue) = 1
    /\ midi_event_queue[1].event.kind = "NoteOff"


(***************************************************************************)
(* The mutexes of the Conn: the synthesizer, the play state, the export    *)
(* state and the live queue.  A call is the list of its lock and unlock    *)
(* operations, in the order of the code; a guard is dropped where the code *)
(* drops it, or at the end of its scope, the latest guard first.  A thread *)
(* that locks a mutex waits until no thread holds it.                      *)
(***************************************************************************)
but_locks == <<mq, mid_file, history, starting, midi_input, deltas>>

Mutexes == {"synth", "play_state", "export_state", "midi_event_queue"}

Lock(mutex) == [op |-> "lock", mutex |-> mutex]
Unlock(mutex) == [op |-> "unlock", mutex |-> mutex]

\* A guard that lives for one statement or is dropped before the next lock.
Locked(mutex) == <<Lock(mutex), Unlock(mutex)>>

RECURSIVE Times(_, _)
Times(n, ops) == IF n = 0 THEN <<>> ELSE ops \o Times(n - 1, ops)

\* A note_ons that locks the play state before the synthesizer.
note_ons_locks_play_state_first ==
    <<Lock("play_state"), Lock("synth"), Unlock("synth"),
      Unlock("play_state")>>

\* Conn::note_ons with a selected track and a note: the synthesizer, and
\* the play state within its scope.
note_ons_locks ==
    <<Lock("synth"), Lock("play_state"), Unlock("play_state"),
      Unlock("synth")>>

\* Conn::note_offs with a selected track and a note.
note_offs_locks == Locked("synth")

\* Conn::do_commands: each command but UnsetProgram locks the synthesizer,
\* LoadSoundFont once more for each program that it restores.
do_commands_locks(n) == Times(n, Locked("synth"))

\* Conn::exporting.
exporting_locks == Locked("export_state")

\* Conn::set_music: the play state is read, then start_music or stop_music.
start_music_locks ==
    Locked("play_state") \o Locked("synth") \o Locked("midi_event_queue")
        \o Locked("play_state")

stop_music_locks ==
    Locked("play_state") \o Locked("synth") \o Locked("play_state")

\* Conn::start_export: set_export_framerate, then the worker is spawned.
start_export_locks(exportables) ==
    Locked("synth") \o <<[op |-> "spawn", exportables |-> exportables]>>

\* Conn::export for the sample counts of its exportables: the export state
\* for WritingWav, the synthesizer for the rest of the body, the export
\* state for each sample, for AppendingDecay, for WritingToDisk and for
\* Done; at the end the export state for NotExporting, and the synthesizer
\* for the sample rate.
RECURSIVE export_locks(_)
export_locks(exportables) ==
    IF exportables = <<>>
    THEN Locked("export_state") \o Locked("synth")
    ELSE Locked("export_state") \o <<Lock("synth")>>
             \o Times(Head(exportables), Locked("export_state"))
             \o Times(3, Locked("export_state")) \o <<Unlock("synth")>>
             \o export_locks(Tail(exportables))

\* The calls of the foreground thread.
MaxSamples == 1

ExportableSamples ==
    UNION {[1..n -> 0..MaxSamples] : n \in 0..MaxTracks}

ConnCalls ==
    {[call |-> "note_ons", ops |-> note_ons_locks],
     [call |-> "note_offs", ops |-> note_offs_locks],
     [call |-> "exporting", ops |-> exporting_locks],
     [call |-> "start_music", ops |-> start_music_locks],
     [call |-> "stop_music", ops |-> stop_music_locks]}
        \cup {[call |-> "do_commands", ops |-> do_commands_locks(n)] :
                  n \in 0..MaxCommands + 1}
        \cup {[call |-> "start_export", ops |-> start_export_locks(x)] :
                  x \in ExportableSamples}

\* The foreground thread begins a call.
conn_call(c) ==
    /\ locks.todo[Foreground] = <<>>
    /\ c.call = "start_export" => \E w \in Workers : locks.todo[w] = <<>>
    /\ locks' = [locks EXCEPT !.todo[Foreground] = c.ops, !.call = c.call]
    /\ UNCHANGED <<conn_vars, io_vars, but_locks>>

Holds(t, mutex) ==
    \E i \in 1..Len(locks.held[t]) : locks.held[t][i] = mutex

\* Thread t does the next operation of its call.
lock_step(t) ==
    /\ locks.todo[t] # <<>>
    /\ LET op == Head(locks.todo[t])
           rest == [locks EXCEPT !.todo[t] = Tail(locks.todo[t])]
       IN  CASE op.op = "lock" ->
                  /\ \A u \in Threads : ~Holds(u, op.mutex)
                  /\ locks' = [rest EXCEPT
                                   !.held[t] = Append(locks.held[t], op.mutex)]
             [] op.op = "unlock" ->
                  locks' = [rest EXCEPT
                                !.held[t] = SelectSeq(locks.held[t],
                                                      LAMBDA m : m # op.mutex)]
             [] op.op = "spawn" ->
                  \E w \in {w \in Workers : locks.todo[w] = <<>>} :
                      locks' = [rest EXCEPT
                                    !.todo[w] = export_locks(op.exportables)]
    /\ UNCHANGED <<conn_vars, io_vars, but_locks>>

LockNext ==
    \/ \E c \in ConnCalls : conn_call(c)
    \/ \E t \in Threads : lock_step(t)

\* The locking does not depend on the project or on the export settings.
LockInit ==
    /\ ProgramInit
    /\ exporter.framerate = ExportFramerate

LockSpec == LockInit /\ [][LockNext]_vars

\* The order of the mutexes.
LockRank(mutex) ==
    CASE mutex = "synth" -> 1
      [] mutex = "play_state" -> 2
      [] mutex = "export_state" -> 3
      [] mutex = "midi_event_queue" -> 4

\* Thread t waits for a mutex that thread u holds.
Waits(t, u) ==
    /\ locks.todo[t] # <<>>
    /\ Head(locks.todo[t]).op = "lock"
    /\ Holds(u, Head(locks.todo[t]).mutex)

\* C39: the foreground calls of the Conn and the export workers take the
\* mutexes in one order: a thread that holds several took the synthesizer
\* before the play state and before the export state, and the lock of the
\* live queue is never held together with another; so no thread waits for
\* a mutex it holds, and no threads wait for each other in a cycle.
C39_LockOrder ==
    /\ \A t \in Threads :
         /\ \A i, j \in 1..Len(locks.held[t]) :
                i < j => LockRank(locks.held[t][i]) < LockRank(locks.held[t][j])
         /\ Holds(t, "midi_event_queue") => Len(locks.held[t]) = 1
    /\ \A t, u, v \in Threads :
         /\ ~Waits(t, t)
         /\ ~(Waits(t, u) /\ Waits(u, t))
         /\ ~(Waits(t, u) /\ Waits(u, v) /\ Waits(v, t))

\* A worker holds the synthesizer and the export state while note_ons
\* waits for the synthesizer.
C39_Witness ==
    /\ locks.call = "note_ons"
    /\ Waits(Foreground, 1)
    /\ locks.held[1] = <<"synth", "export_state">>


(***************************************************************************)
(* Input::update, one frame.  u is what the frame reads: the qwerty events *)
(* that were pressed, the messages that the MIDI connection has polled,    *)
(* and armed, alphanumeric_input, use_volume and volume of state.input.    *)
(* The characters that were typed are not part of the model.               *)
(***************************************************************************)
but_midi_input == <<mq, mid_file, history, starting, locks, deltas>>

MAX_OCTAVE == 9

ALLOWED_DURING_ALPHANUMERIC_INPUT ==
    {"Quit", "AppTTS", "StatusTTS", "InputTTS", "FileTTS",
     "ToggleAlphanumericInput", "UpDirectory", "DownDirectory", "SelectFile",
     "NextPath", "PreviousPath", "CloseOpenFile"}

\* The note of a qwerty note event, in half-steps from C.
QwertyNotes ==
    [C |-> 0, CSharp |-> 1, D |-> 2, DSharp |-> 3, E |-> 4, F |-> 5,
     FSharp |-> 6, G |-> 7, GSharp |-> 8, A |-> 9, ASharp |-> 10, B |-> 11]

\* Input::qwerty_note.
qwerty_note(in, note, u) ==
    LET pitch == (9 - in.qwerty_octave) * 12 + note
        message == <<144, pitch, u.volume>>
    IN  [in EXCEPT !.new_notes = IF u.armed THEN Append(@, message) ELSE @,
                   !.play_now = Append(@, message)]

\* The qwerty note input: the loop over the events.
RECURSIVE qwerty_input(_, _, _)
qwerty_input(in, events, u) ==
    IF events = <<>> THEN in
    ELSE qwerty_input(
             IF Head(events) \in DOMAIN QwertyNotes
             THEN qwerty_note(in, QwertyNotes[Head(events)], u)
             ELSE IF Head(events) = "OctaveUp"
             THEN [in EXCEPT !.qwerty_octave =
                                 IF @ < MAX_OCTAVE THEN @ + 1 ELSE @]
             ELSE IF Head(events) = "OctaveDown"
             THEN [in EXCEPT !.qwerty_octave = IF @ > 0 THEN @ - 1 ELSE @]
             ELSE in,
             Tail(events), u)

IsNoteOn(message) == message[1] >= 144 /\ message[1] <= 159
IsNoteOff(message) == message[1] >= 128 /\ message[1] <= 143

\* NoteOn::new: a note-on that has no note-off yet.
NoteOn_new(message) == [note |-> message, off |-> FALSE]

\* The note-on as it is kept: with the volume of the input if use_volume.
WithVolume(message, u) ==
    IF u.use_volume THEN <<message[1], message[2], u.volume>> ELSE message

\* One polled message: a note-on is remembered if the input is armed and
\* copied to play_now; a note-off marks the remembered note-ons of its key.
midi_message(in, message, u) ==
    LET on == IF IsNoteOn(message)
              THEN [in EXCEPT
                        !.note_on_events =
                            IF u.armed
                            THEN Append(@, NoteOn_new(WithVolume(message, u)))
                            ELSE @,
                        !.play_now = Append(@, WithVolume(message, u))]
              ELSE in
    IN  IF u.armed /\ IsNoteOff(message)
        THEN [on EXCEPT !.note_on_events =
                            [i \in 1..Len(on.note_on_events) |->
                                IF on.note_on_events[i].note[2] = message[2]
                                THEN [on.note_on_events[i] EXCEPT !.off = TRUE]
                                ELSE on.note_on_events[i]]]
        ELSE on

RECURSIVE midi_input_loop(_, _, _)
midi_input_loop(in, messages, u) ==
    IF messages = <<>> THEN in
    ELSE midi_input_loop(midi_message(in, Head(messages), u),
                         Tail(messages), u)

\* If all note-ons are off, they are added to new_notes and forgotten.
all_off(in) ==
    IF in.note_on_events # <<>>
         /\ \A i \in 1..Len(in.note_on_events) : in.note_on_events[i].off
    THEN [in EXCEPT !.new_notes =
                        @ \o [i \in 1..Len(in.note_on_events) |->
                                 in.note_on_events[i].note],
                    !.note_on_events = <<>>]
    ELSE in

\* The update after new_notes and play_now, cleared or not, are in place.
Input_update_from(in, u) ==
    LET q == [qwerty_input(in, u.qwerty, u) EXCEPT
                  !.events = IF u.alphanumeric_input
                             THEN SelectSeq(u.qwerty,
                                      LAMBDA e :
                                          e \in ALLOWED_DURING_ALPHANUMERIC_INPUT)
                             ELSE u.qwerty,
                  !.update = u]
    IN  IF u.alphanumeric_input THEN q
        ELSE all_off(midi_input_loop(q, u.midi, u))

\* An update that keeps the notes of the frame before.
Input_update_keeps_notes(in, u) == Input_update_from(in, u)

Input_update(in, u) ==
    Input_update_from([in EXCEPT !.new_notes = <<>>, !.play_now = <<>>], u)

(***************************************************************************)
(* The frames of the input: up to MaxMidi messages of two keys in a frame, *)
(* a qwerty note or none, and any setting of the input; at most MaxPending *)
(* note-ons wait for their note-off.                                       *)
(***************************************************************************)
MaxMidi == 2
MaxPending == 2

MidiMessages ==
    {<<144, 60, 100>>, <<144, 62, 100>>, <<128, 60, 0>>, <<128, 62, 0>>}

Updates ==
    [midi : UNION {[1..n -> MidiMessages] : n \in 0..MaxMidi},
     qwerty : {<<>>, <<"C">>},
     armed : BOOLEAN, alphanumeric_input : BOOLEAN, use_volume : BOOLEAN,
     volume : {80}]

Input_frame(u) ==
    /\ midi_input' = Input_update(midi_input, u)
    /\ Len(midi_input'.note_on_events) <= MaxPending
    /\ UNCHANGED <<conn_vars, io_vars, but_midi_input>>

InputNext == \E u \in Updates : Input_frame(u)

InputSpec == LockInit /\ [][InputNext]_vars

\* The note-ons among the messages of a frame, as they are kept.
Arrived(u) ==
    LET ons == SelectSeq(u.midi, IsNoteOn)
    IN  [i \in 1..Len(ons) |-> WithVolume(ons[i], u)]

\* The notes that the qwerty events of a frame add to new_notes.
QwertyAdded(u) ==
    IF u.armed
    THEN Len(SelectSeq(u.qwerty, LAMBDA e : e \in DOMAIN QwertyNotes))
    ELSE 0

\* The message at position k of the frame is a note-on that gets its
\* note-off later in the frame.
OffInFrame(u, k) ==
    \E j \in k + 1..Len(u.midi) :
        IsNoteOff(u.midi[j]) /\ u.midi[j][2] = u.midi[k][2]

\* C38: the notes of the MIDI note-ons are moved to new_notes only in a
\* frame of an armed input in which every pending note-on has got a
\* note-off for its key; then all of them are delivered, in the order of
\* their arrival, and none is pending any more.  In every other frame no
\* MIDI note is in new_notes and the pending ones stay pending, in their
\* order; new_notes holds nothing of the frame before; and during
\* alphanumeric input nothing of the MIDI input is delivered, played or
\* remembered.
C38_DeliveredWhenAllOff ==
    [][LET u == midi_input'.update
           before == midi_input.note_on_events
           after == midi_input'.note_on_events
           notes == midi_input'.new_notes
           delivered == SubSeq(notes, QwertyAdded(u) + 1, Len(notes))
           kept == [i \in 1..Len(before) |-> before[i].note]
               \o (IF u.armed /\ ~u.alphanumeric_input
                   THEN Arrived(u) ELSE <<>>)
       IN  /\ Len(notes) >= QwertyAdded(u)
           /\ \A i \in 1..QwertyAdded(u) : notes[i][3] = u.volume
           /\ delivered # <<>> =>
                /\ u.armed /\ ~u.alphanumeric_input
                /\ delivered = kept
                /\ after = <<>>
                /\ \A i \in 1..Len(before) :
                       \/ before[i].off
                       \/ \E j \in 1..Len(u.midi) :
                              /\ IsNoteOff(u.midi[j])
                              /\ u.midi[j][2] = before[i].note[2]
                /\ \A k \in 1..Len(u.midi) :
                       IsNoteOn(u.midi[k]) => OffInFrame(u, k)
           /\ delivered = <<>> =>
                /\ [i \in 1..Len(after) |-> after[i].note] = kept
                /\ after # <<>> => \E i \in 1..Len(after) : ~after[i].off
           /\ u.alphanumeric_input =>
                /\ delivered = <<>>
                /\ after = before
                /\ Len(midi_input'.play_now) = Len(u.qwerty)
      ]_vars

\* Two note-ons that arrived in two frames are delivered together, in the
\* frame of the second note-off.
C38_Witness ==
    /\ midi_input.update.midi = <<<<128, 62, 0>>>>
    /\ midi_input.update.qwerty = <<>>
    /\ midi_input.new_notes = <<<<144, 60, 100>>, <<144, 62, 80>>>>
    /\ midi_input.note_on_events = <<>>


(***************************************************************************)
(* EditModeDeltas: the deltas of the piano roll for the three edit modes.  *)
(* config is the PIANO_ROLL section as parse and parse_float return it:    *)
(* the integers, and precise_time as an f32.                               *)
(***************************************************************************)
but_deltas == <<mq, mid_file, history, starting, locks, midi_input>>

EditModes == {"Normal", "Quick", "Precise"}

\* x as u64, for an x below 256.
as_u64(x) == as_u8(x)

\* EditModeDeltas::new.
EditModeDeltas_new(config) ==
    [made |-> TRUE,
     config |-> config,
     quick_time_factor |-> config.quick_time_factor,
     precise_time |-> as_u64(f_mul(PPQ_F, config.precise_time, F32)),
     normal_note |-> config.normal_note,
     quick_note |-> config.quick_note,
     precise_note |-> config.precise_note,
     normal_volume |-> config.normal_volume,
     quick_volume |-> config.quick_volume,
     precise_volume |-> config.precise_volume,
     call |-> "new", mode |-> "Normal", beat |-> 0, delta |-> 0]

\* A get_dt that multiplies the beat in every mode.
get_dt_quick(e, mode, beat) == beat * e.quick_time_factor

\* EditModeDeltas::get_dt, for the beat of the input.
get_dt(e, mode, beat) ==
    CASE mode = "Normal" -> beat
      [] mode = "Quick" -> beat * e.quick_time_factor
      [] mode = "Precise" -> e.precise_time

\* EditModeDeltas::get_dn.
get_dn(e, mode) ==
    CASE mode = "Normal" -> e.normal_note
      [] mode = "Quick" -> e.quick_note
      [] mode = "Precise" -> e.precise_note

\* EditModeDeltas::get_dv.
get_dv(e, mode) ==
    CASE mode = "Normal" -> e.normal_volume
      [] mode = "Quick" -> e.quick_volume
      [] mode = "Precise" -> e.precise_volume

(***************************************************************************)
(* The piano roll makes its deltas from a configuration and asks for them  *)
(* in any mode.  The fractions of a beat are the f32 values nearest to the *)
(* twelfths and to the thirty-seconds of a beat.                           *)
(***************************************************************************)
BeatParts == {12, 32}

Fractions == UNION {{f_div(g, d, F32) : g \in 0..d} : d \in BeatParts}

PianoRollConfigs ==
    [quick_time_factor : {2, 4}, precise_time : Fractions,
     normal_note : {1}, quick_note : {12}, precise_note : {1, 2},
     normal_volume : {1}, quick_volume : {10}, precise_volume : {1, 5}]

Beats == {48, PPQ_F}

deltas_new(config) ==
    /\ ~deltas.made
    /\ deltas' = EditModeDeltas_new(config)
    /\ UNCHANGED <<conn_vars, io_vars, but_deltas>>

deltas_get_dt(mode, beat) ==
    /\ deltas.made
    /\ deltas' = [deltas EXCEPT !.call = "get_dt", !.mode = mode,
                                !.beat = beat,
                                !.delta = get_dt(deltas, mode, beat)]
    /\ UNCHANGED <<conn_vars, io_vars, but_deltas>>

deltas_get_dn(mode) ==
    /\ deltas.made
    /\ deltas' = [deltas EXCEPT !.call = "get_dn", !.mode = mode,
                                !.delta = get_dn(deltas, mode)]
    /\ UNCHANGED <<conn_vars, io_vars, but_deltas>>

deltas_get_dv(mode) ==
    /\ deltas.made
    /\ deltas' = [deltas EXCEPT !.call = "get_dv", !.mode = mode,
                                !.delta = get_dv(deltas, mode)]
    /\ UNCHANGED <<conn_vars, io_vars, but_deltas>>

DeltaNext ==
    \/ \E config \in PianoRollConfigs : deltas_new(config)
    \/ \E mode \in EditModes, beat \in Beats : deltas_get_dt(mode, beat)
    \/ \E mode \in EditModes : deltas_get_dn(mode)
    \/ \E mode \in EditModes : deltas_get_dv(mode)

DeltaSpec == LockInit /\ [][DeltaNext]_vars

\* floor(x * PPQ) for the fraction x, without any rounding of the product.
FloorOfPulses(x) ==
    IF x = Zero THEN 0
    ELSE LET y == [sig |-> sig_times(x.sig, PPQ_F), exp |-> x.exp]
         IN  integer_part(y, sig_length(y.sig) - y.exp)

\* The delta that was returned is that of the mode.
DeltaOfMode ==
    /\ deltas.call = "get_dt" =>
         deltas.delta =
             CASE deltas.mode = "Normal" -> deltas.beat
               [] deltas.mode = "Quick" ->
                    deltas.beat * deltas.config.quick_time_factor
               [] deltas.mode = "Precise" -> deltas.precise_time
    /\ deltas.call = "get_dn" =>
         deltas.delta =
             CASE deltas.mode = "Normal" -> deltas.config.normal_note
               [] deltas.mode = "Quick" -> deltas.config.quick_note
               [] deltas.mode = "Precise" -> deltas.config.precise_note
    /\ deltas.call = "get_dv" =>
         deltas.delta =
             CASE deltas.mode = "Normal" -> deltas.config.normal_volume
               [] deltas.mode = "Quick" -> deltas.config.quick_volume
               [] deltas.mode = "Precise" -> deltas.config.precise_volume

\* C40 (as claimed): precise_time is floor(fraction * PPQ) for the
\* configured fraction of a beat, and every delta returned is that of the
\* mode: the beat, the beat times quick_time_factor or precise_time for
\* get_dt, the note and the volume delta of the mode for get_dn and get_dv.
C40_DeltasFloor ==
    deltas.made =>
        /\ deltas.precise_time = FloorOfPulses(deltas.config.precise_time)
        /\ DeltaOfMode

\* C40: every delta returned is that of the mode, and precise_time is the
\* whole part of the f32 product of the fraction and PPQ: floor(fraction *
\* PPQ) or, when the product is rounded up to a whole number, one more;
\* it is floor(fraction * PPQ) for every thirty-second of a beat.
C40_DeltasOfMode ==
    deltas.made =>
        /\ deltas.precise_time \in
               {FloorOfPulses(deltas.config.precise_time),
                FloorOfPulses(deltas.config.precise_time) + 1}
        /\ \A g \in 0..32 :
               deltas.config.precise_time = f_div(g, 32, F32) =>
                   deltas.precise_time = (g * PPQ_F) \div 32
        /\ DeltaOfMode

\* In Precise mode get_dt has returned the 80 pulses of five twelfths of a
\* beat, whose f32 is below 5/12 and whose product with PPQ is rounded up.
C40_Witness ==
    /\ deltas.made
    /\ deltas.call = "get_dt"
    /\ deltas.mode = "Precise"
    /\ deltas.config.precise_time = f_div(5, 12, F32)
    /\ deltas.delta = 80
    /\ FloorOfPulses(deltas.config.precise_time) = 79

====
